---- MODULE Spec2Model ----
(***************************************************************************)
(* Model of the AI-Tutor backend: the query orchestrator (QueryHandler),   *)
(* its conversation history, the relevance filter, the mock generator and  *)
(* the websocket streaming protocol of backend_python/main.py.             *)
(*                                                                         *)
(* Python strings are modelled as canonical token sequences: a token is    *)
(* either one whitespace character (" ", "\n", "\t") or a maximal run of   *)
(* non-whitespace characters.  Two Python strings are equal iff their      *)
(* canonical token sequences are equal.                                    *)
(***************************************************************************)
EXTENDS Integers, Sequences, FiniteSets, TLC

(***************************************************************************)
(* Bounds of the model                                                     *)
(***************************************************************************)
\* websocket messages received in one run of the streaming specification
MaxMsgs == 2
\* failures of the generation provider in one run
MaxProviderFail == 1
\* sends that raise although the client is still there, in one run
MaxTransientFail == 1
\* batch queries in one run of the batch specification
MaxBatch == 2
\* batch queries and websocket messages in one run of the history specification
MaxHistBatch == 10
MaxHistMsgs == 1
\* chunks a search returns in the relevance-filter specification
MaxRetrieved == 4
\* websocket messages in one run of the two-connection specification
MaxConcMsgs == 2
MaxFallbackMsgs == 1
MaxFallbackBatch == 1
MaxErrorMsgs == 2
MaxErrorFail == 2
MaxErrorBatch == 1
MaxTextLen == 5
MaxChunkSize == 3
MaxEmitted == 5
MaxStoreOps == 3
MaxIndexFail == 2
MaxHistoryOfBatch == 2

(***************************************************************************)
(* Python values                                                           *)
(***************************************************************************)
\* Python's None where a user_id is expected (user ids are strings otherwise)
NoneVal == "<None>"

\* the websocket connections of a run; Conns are those of the streaming
\* specification
AllConns == {"c1", "c2"}
Conns == {"c1"}

Min(a, b) == IF a < b THEN a ELSE b

(***************************************************************************)
(* Strings                                                                 *)
(***************************************************************************)
IsWs(t) == t \in {" ", "\n", "\t"}

\* s + t on canonical token sequences: the run ending s and the run starting
\* t merge into one token
Cat(s, t) ==
    IF s = <<>> THEN t
    ELSE IF t = <<>> THEN s
    ELSE IF ~IsWs(s[Len(s)]) /\ ~IsWs(t[1])
         THEN SubSeq(s, 1, Len(s) - 1) \o <<s[Len(s)] \o t[1]>> \o Tail(t)
         ELSE s \o t

RECURSIVE CatAll(_)
CatAll(ss) == IF ss = <<>> THEN <<>> ELSE Cat(ss[1], CatAll(Tail(ss)))

\* len(s)
RECURSIVE PyLen(_)
PyLen(s) == IF s = <<>> THEN 0 ELSE Len(s[1]) + PyLen(Tail(s))

\* s.split(): the maximal whitespace-free runs of s
RECURSIVE Split(_)
Split(s) ==
    IF s = <<>> THEN <<>>
    ELSE IF IsWs(s[1]) THEN Split(Tail(s))
    ELSE <<s[1]>> \o Split(Tail(s))

\* " ".join(ws) for a list of whitespace-free words
RECURSIVE JoinSpace(_)
JoinSpace(ws) ==
    IF ws = <<>> THEN <<>>
    ELSE IF Len(ws) = 1 THEN <<ws[1]>>
    ELSE <<ws[1], " ">> \o JoinSpace(Tail(ws))

\* a literal without newlines, written as its words
Lit(ws) == JoinSpace(ws)

\* str(n) for a natural number
StrNat(n) == <<ToString(n)>>

\* words[i:i + n] of a Python list, i counted from 0
Slice(ws, i, n) == SubSeq(ws, i + 1, Min(i + n, Len(ws)))

\* xs[-n:] of a Python list, n > 0
LastN(xs, n) == IF Len(xs) <= n THEN xs ELSE SubSeq(xs, Len(xs) - n + 1, Len(xs))

(***************************************************************************)
(* Conversation history (QueryHandler._add_to_history)                     *)
(***************************************************************************)
HistoryCap == 20

HistoryEntry(message, role, user_id, ts) ==
    [message |-> message, role |-> role, user_id |-> user_id, timestamp |-> ts]

\* the list after conversation_history.append(entry) and the truncation
AddToHistoryKeepOldest(h, message, role, user_id, ts) ==
    LET h2 == Append(h, HistoryEntry(message, role, user_id, ts))
    IN  IF Len(h2) > HistoryCap THEN SubSeq(h2, 1, HistoryCap) ELSE h2

AddToHistory(h, message, role, user_id, ts) ==
    LET h2 == Append(h, HistoryEntry(message, role, user_id, ts))
    IN  IF Len(h2) > HistoryCap THEN LastN(h2, HistoryCap) ELSE h2

(***************************************************************************)
(* Relevance filter (QueryHandler._get_relevant_context)                   *)
(***************************************************************************)
\* distances are counted in hundredths: 0.8 is 80, the default 1.0 is 100
RelevanceCutoff == 80
DefaultDistance == 100
NResults == 5

\* chunk.get('distance', 1.0)
GetDistance(chunk) ==
    IF "distance" \in DOMAIN chunk THEN chunk.distance ELSE DefaultDistance

IsRelevantInclusive(chunk) == GetDistance(chunk) <= RelevanceCutoff

IsRelevant(chunk) == GetDistance(chunk) < RelevanceCutoff

\* [chunk for chunk in context_chunks if chunk.get('distance', 1.0) < 0.8]
RECURSIVE FilterRelevant(_)
FilterRelevant(chunks) ==
    IF chunks = <<>> THEN <<>>
    ELSE IF IsRelevant(chunks[1])
         THEN <<chunks[1]>> \o FilterRelevant(Tail(chunks))
         ELSE FilterRelevant(Tail(chunks))

\* a search result: "ok" with the chunks search_similar returned, or "raise"
GetRelevantContext(search) ==
    IF search.kind = "raise" THEN <<>> ELSE FilterRelevant(search.chunks)

(***************************************************************************)
(* Mock generator (QueryHandler._generate_mock_response and the head of    *)
(* _generate_mock_streaming_response)                                      *)
(***************************************************************************)
\* a query or a history message is a Python value: a str (its tokens in s) or
\* another JSON value (s is then its str() rendering)
PyStr(s) == [isStr |-> TRUE, s |-> s]
PyOther(s) == [isStr |-> FALSE, s |-> s]

ContextInfo(context_chunks) ==
    IF context_chunks # <<>>
    THEN CatAll(<<Lit(<<"I", "found">>), <<" ">>, StrNat(Len(context_chunks)), <<" ">>,
                  Lit(<<"relevant", "sections", "in", "your", "course", "materials",
                        "that", "address", "this", "topic.">>)>>)
    ELSE Lit(<<"I", "don't", "have", "specific", "information", "about", "this",
               "topic", "in", "your", "uploaded", "materials.">>)

MockResponses(q, context_info) ==
    << CatAll(<<Lit(<<"Great", "question", "about">>), <<" ", "'">>, q, <<"'!", " ">>,
                context_info, <<" ">>,
                Lit(<<"Let", "me", "explain", "this", "concept", "based", "on",
                      "what", "I", "know.">>)>>),
       CatAll(<<Lit(<<"Excellent", "question!">>), <<" ", "'">>, q, <<"'", " ">>,
                Lit(<<"is", "an", "important", "topic.">>), <<" ">>,
                context_info, <<" ">>,
                Lit(<<"Here's", "what", "I", "can", "tell", "you", "about", "it.">>)>>),
       CatAll(<<Lit(<<"I'd", "be", "happy", "to", "help", "with">>), <<" ", "'">>, q,
                <<"'.", " ">>, context_info, <<" ">>,
                Lit(<<"This", "is", "a", "fundamental", "concept", "worth",
                      "understanding.">>)>>),
       CatAll(<<Lit(<<"Interesting", "question", "about">>), <<" ", "'">>, q,
                <<"'!", " ">>, context_info, <<" ">>,
                Lit(<<"Let", "me", "break", "this", "down", "for", "you.">>)>>) >>

EducationalAdditions ==
    << <<"\n", "\n">> \o Lit(<<"This", "concept", "is", "important", "because", "it",
            "forms", "the", "foundation", "for", "more", "advanced", "topics.">>),
       <<"\n", "\n">> \o Lit(<<"Understanding", "this", "will", "help", "you", "with",
            "related", "concepts", "in", "your", "studies.">>),
       <<"\n", "\n">> \o Lit(<<"This", "topic", "often", "appears", "in", "exams",
            "and", "practical", "applications.">>),
       <<"\n", "\n">> \o Lit(<<"Mastering", "this", "concept", "will", "make",
            "future", "learning", "much", "easier.">>) >>

\* len(query) raises TypeError for a value that has no length
MockRaises(query) == ~query.isStr

\* the templates are selected by the number of words of the query
MockResponseByWords(query, context_chunks) ==
    LET responses == MockResponses(query.s, ContextInfo(context_chunks))
        response_index == Len(Split(query.s)) % Len(responses)
        addition_index == Len(Split(query.s)) % Len(EducationalAdditions)
    IN  Cat(responses[response_index + 1], EducationalAdditions[addition_index + 1])

\* base_response + educational_additions[addition_index], for a str query
MockResponse(query, context_chunks) ==
    LET responses == MockResponses(query.s, ContextInfo(context_chunks))
        response_index == PyLen(query.s) % Len(responses)
        addition_index == PyLen(query.s) % Len(EducationalAdditions)
    IN  Cat(responses[response_index + 1], EducationalAdditions[addition_index + 1])

\* the answer recorded is what the chunks sent add up to: the words of the
\* answer joined by single spaces
MockStreamingFullFromChunks(query, context_chunks) ==
    JoinSpace(Split(MockResponse(query, context_chunks)))

\* full_response of _generate_mock_streaming_response, for a str query
MockStreamingFull(query, context_chunks) ==
    LET context_info ==
            IF context_chunks # <<>>
            THEN CatAll(<<Lit(<<"I", "found">>), <<" ">>, StrNat(Len(context_chunks)),
                          <<" ">>,
                          Lit(<<"relevant", "sections", "in", "your", "course",
                                "materials", "that", "address", "this", "topic.">>)>>)
            ELSE Lit(<<"I", "don't", "have", "specific", "information", "about",
                       "this", "topic", "in", "your", "uploaded", "materials.">>)
        q == query.s
        mock_responses ==
            << CatAll(<<Lit(<<"Great", "question", "about">>), <<" ", "'">>, q,
                        <<"'!", " ">>, context_info, <<" ">>,
                        Lit(<<"Let", "me", "explain", "this", "concept", "based", "on",
                              "what", "I", "know.">>)>>),
               CatAll(<<Lit(<<"Excellent", "question!">>), <<" ", "'">>, q, <<"'", " ">>,
                        Lit(<<"is", "an", "important", "topic.">>), <<" ">>,
                        context_info, <<" ">>,
                        Lit(<<"Here's", "what", "I", "can", "tell", "you", "about",
                              "it.">>)>>),
               CatAll(<<Lit(<<"I'd", "be", "happy", "to", "help", "with">>), <<" ", "'">>,
                        q, <<"'.", " ">>, context_info, <<" ">>,
                        Lit(<<"This", "is", "a", "fundamental", "concept", "worth",
                              "understanding.">>)>>),
               CatAll(<<Lit(<<"Interesting", "question", "about">>), <<" ", "'">>, q,
                        <<"'!", " ">>, context_info, <<" ">>,
                        Lit(<<"Let", "me", "break", "this", "down", "for", "you.">>)>>) >>
        response_index == PyLen(q) % Len(mock_responses)
        educational_additions ==
            << <<"\n", "\n">> \o Lit(<<"This", "concept", "is", "important", "because",
                    "it", "forms", "the", "foundation", "for", "more", "advanced",
                    "topics.">>),
               <<"\n", "\n">> \o Lit(<<"Understanding", "this", "will", "help", "you",
                    "with", "related", "concepts", "in", "your", "studies.">>),
               <<"\n", "\n">> \o Lit(<<"This", "topic", "often", "appears", "in",
                    "exams", "and", "practical", "applications.">>),
               <<"\n", "\n">> \o Lit(<<"Mastering", "this", "concept", "will", "make",
                    "future", "learning", "much", "easier.">>) >>
        addition_index == PyLen(q) % Len(educational_additions)
    IN  Cat(mock_responses[response_index + 1],
            educational_additions[addition_index + 1])

\* words per 'chunk' notification of the mock stream
MockChunkSize == 3

\* the content of the 'chunk' notification for words[i:i + chunk_size]
MockChunkContent(words, i) == Cat(JoinSpace(Slice(words, i, MockChunkSize)), <<" ">>)

(***************************************************************************)
(* Inputs                                                                  *)
(***************************************************************************)
Q1 == PyStr(<<"What", " ", "is", " ", "gradient", " ", "descent?">>)
QNum == PyOther(<<"5">>)

\* the JSON objects a client sends on the websocket
Messages ==
    { [message |-> Q1, user_id |-> "alice"],
      [message |-> Q1],
      [message |-> QNum],
      [user_id |-> "alice"] }

NoMsg == [absent |-> TRUE]

Chunk(d) ==
    [text |-> Lit(<<"Gradient", "descent", "minimises", "a", "loss.">>),
     metadata |-> [filename |-> "ml.txt"],
     distance |-> d]

\* what vector_db.search_similar does when _get_relevant_context calls it
SearchResults ==
    { [kind |-> "ok", chunks |-> <<>>],
      [kind |-> "ok", chunks |-> <<Chunk(20), Chunk(81)>>],
      [kind |-> "raise"] }

\* the deltas of a provider stream; a delta may carry no content
ProviderStream ==
    << [content |-> <<"Gradient", " ">>], [role |-> "assistant"], [content |-> <<"descent.">>] >>

\* the exceptions a failed websocket send raises
SendErrors == {"WebSocketDisconnect", "RuntimeError"}

\* str(e)
ExcText(e) ==
    CASE e = "WebSocketDisconnect" -> <<>>
      [] e = "RuntimeError" -> Lit(<<"Cannot", "call", "send", "once", "closed.">>)
      [] e = "TypeError" -> Lit(<<"object", "has", "no", "len()">>)
      [] OTHER -> <<e>>

ApologyPrefix ==
    Lit(<<"I", "apologize,", "but", "I", "encountered", "an", "error", "processing",
          "your", "query:">>) \o <<" ">>

MockErrorMessage ==
    Lit(<<"Sorry,", "I'm", "having", "trouble", "generating", "a", "response",
          "right", "now.">>)

(***************************************************************************)
(* State                                                                   *)
(***************************************************************************)
VARIABLES
    conversation_history,  \* QueryHandler.conversation_history
    openai_client,         \* QueryHandler.openai_client: "none" or "client"
    active_connections,    \* ConnectionManager.active_connections
    conn,                  \* per connection: where websocket_endpoint stands, its locals
    log,                   \* per connection: the notifications sent, in order
    broken,                \* per connection: the client is gone, a send raises
    clock,                 \* the clock behind datetime.now()
    batch,                 \* the batch request: where process_query stands, its result
    probe,                 \* the input and the output of a function applied on its own
    budget,                \* what the environment may still do in this run
    appended,              \* history: every entry ever appended, in order
    ghost                  \* history: per connection, facts about the current query

vars == <<conversation_history, openai_client, active_connections, conn, log,
          broken, clock, batch, probe, budget, appended, ghost>>

IdleConn(pcv) ==
    [pc |-> pcv, msg |-> NoMsg, ctx |-> <<>>, full |-> <<>>, words |-> <<>>,
     idx |-> 0, mockFrom |-> "", stream |-> <<>>, exc |-> ""]

\* qstart: notifications sent before the current message was received;
\* msgs: messages received; failedAt: notifications of the current query sent
\* before the first exception inside process_query_streaming (-1: none);
\* epFailed: an exception was raised in websocket_endpoint itself;
\* sendFailed: a send raised; recorded, answer: the assistant entry appended;
\* escaped: an exception left process_query_streaming
NewGhost == [qstart |-> 0, msgs |-> 0, failedAt |-> -1, epFailed |-> FALSE,
             sendFailed |-> FALSE, recorded |-> FALSE, answer |-> <<>>,
             escaped |-> FALSE, query |-> NoMsg, ctx |-> <<>>, pfailed |-> FALSE,
             errors |-> <<>>, uentry |-> -1, aentry |-> -1]

NoResult == [absent |-> TRUE]

\* process_query and its locals; steps, base and pfailed observe the call:
\* the steps it has completed, the number of entries appended before it
\* began, and whether the provider failed in it
IdleBatch ==
    [pc |-> "idle", query |-> NoMsg, user_id |-> NoneVal, ctx |-> <<>>,
     response |-> NoMsg, outcome |-> "none", result |-> NoResult, excepted |-> FALSE,
     steps |-> <<>>, base |-> 0, pfailed |-> FALSE]

NoProbe == [fn |-> "none"]

InitCommon ==
    /\ conversation_history = <<>>
    /\ batch = IdleBatch
    /\ active_connections = <<>>
    /\ conn = [c \in AllConns |-> IdleConn("connect")]
    /\ log = [c \in AllConns |-> <<>>]
    /\ broken = [c \in AllConns |-> FALSE]
    /\ clock = 0
    /\ appended = <<>>
    /\ ghost = [c \in AllConns |-> NewGhost]

Init ==
    /\ InitCommon
    /\ openai_client \in {"none", "client"}
    /\ probe = NoProbe
    /\ budget = [msgs |-> MaxMsgs, pfails |-> MaxProviderFail, tfails |-> MaxTransientFail,
                 batch |-> 0]

\* message_data.get("user_id", "websocket_user")
UserIdOf(msg) == IF "user_id" \in DOMAIN msg THEN msg.user_id ELSE "websocket_user"

Notification(type, content) == [type |-> type, content |-> content]

\* the append works on a copy of the list taken before the last append,
\* which is lost
RecordOnStaleList(message, role, user_id) ==
    /\ conversation_history' =
           AddToHistory(IF conversation_history = <<>> THEN <<>>
                        ELSE SubSeq(conversation_history, 1,
                                    Len(conversation_history) - 1),
                        message, role, user_id, clock)
    /\ appended' = Append(appended, HistoryEntry(message, role, user_id, clock))
    /\ clock' = clock + 1

\* self._add_to_history(message, role, user_id) at the current clock
Record(message, role, user_id) ==
    /\ conversation_history' =
           AddToHistory(conversation_history, message, role, user_id, clock)
    /\ appended' = Append(appended, HistoryEntry(message, role, user_id, clock))
    /\ clock' = clock + 1

\* the first exception of the current query is noted with the number of
\* notifications sent before it
NoteFailure(g, n) == IF g.failedAt = -1 THEN [g EXCEPT !.failedAt = n] ELSE g

\* the notifications of the current query of connection c
QLog(c) == SubSeq(log[c], ghost[c].qstart + 1, Len(log[c]))

(***************************************************************************)
(* websocket_endpoint and QueryHandler.process_query_streaming             *)
(***************************************************************************)
\* list.remove(x): the first occurrence goes
RECURSIVE Remove(_, _)
Remove(xs, x) ==
    IF xs = <<>> THEN <<>>
    ELSE IF xs[1] = x THEN Tail(xs)
    ELSE <<xs[1]>> \o Remove(Tail(xs), x)

\* the try bodies a send or a provider call stands in
EndpointBody == {"send_processing"}
PqsTry == {"pqs_send_context", "pqs_send_found"}
GsrTry == {"gsr_send_generating", "gsr_create", "gsr_iter", "gsr_send_chunk",
           "gsr_send_complete"}
MockTry == {"mock_send_generating", "mock_send_chunk", "mock_send_complete"}
SendPcs == {"send_processing", "pqs_send_context", "pqs_send_found",
            "gsr_send_generating", "gsr_send_chunk", "gsr_send_complete",
            "mock_send_generating", "mock_send_chunk", "mock_send_complete",
            "mock_send_error", "pqs_send_error"}
Terminated == {"closed", "crashed"}

\* an exception leaves the loop body of websocket_endpoint: only
\* WebSocketDisconnect is caught there
EndpointExcept(e) ==
    IdleConn(IF e = "WebSocketDisconnect" THEN "closed" ELSE "crashed")

\* the except clause of process_query_streaming swallows the exception and
\* sends nothing
PqsExceptSilent(cur, e) == IdleConn("receive")

\* the except clause of process_query_streaming: the 'error' send is next
PqsExcept(cur, e) == [IdleConn("pqs_send_error") EXCEPT !.exc = e]

\* the except clause of _generate_mock_streaming_response
MockExcept(cur) ==
    [IdleConn("mock_send_error") EXCEPT !.msg = cur.msg, !.ctx = cur.ctx,
                                         !.mockFrom = cur.mockFrom]

\* _generate_mock_streaming_response up to its first send; from is the call
\* site: "try" (the absent client) or "except" (the handler of
\* _generate_streaming_response)
StartMock(cur, from) ==
    IF MockRaises(cur.msg.message)
    THEN MockExcept([cur EXCEPT !.mockFrom = from])
    ELSE [IdleConn("mock_send_generating") EXCEPT
              !.msg = cur.msg, !.ctx = cur.ctx, !.mockFrom = from,
              !.full = MockStreamingFull(cur.msg.message, cur.ctx)]

\* _generate_streaming_response has no except clause of its own: its
\* exceptions reach the handler of process_query_streaming
HandleNoFallback(cur, e) ==
    CASE cur.pc \in EndpointBody ->
             [rec |-> EndpointExcept(e), escaped |-> FALSE]
      [] cur.pc \in PqsTry \cup GsrTry ->
             [rec |-> PqsExcept(cur, e), escaped |-> FALSE]
      [] cur.pc \in MockTry ->
             [rec |-> MockExcept(cur), escaped |-> FALSE]
      [] cur.pc = "mock_send_error" ->
             [rec |-> PqsExcept(cur, e), escaped |-> FALSE]
      [] cur.pc = "pqs_send_error" ->
             [rec |-> EndpointExcept(e), escaped |-> TRUE]

\* where control goes when e is raised at cur.pc; escaped: e left
\* process_query_streaming
Handle(cur, e) ==
    CASE cur.pc \in EndpointBody ->
             [rec |-> EndpointExcept(e), escaped |-> FALSE]
      [] cur.pc \in PqsTry ->
             [rec |-> PqsExcept(cur, e), escaped |-> FALSE]
      [] cur.pc \in GsrTry ->
             [rec |-> StartMock(cur, "except"), escaped |-> FALSE]
      [] cur.pc \in MockTry ->
             [rec |-> MockExcept(cur), escaped |-> FALSE]
      [] cur.pc = "mock_send_error" ->
             [rec |-> IF cur.mockFrom = "try" THEN StartMock(cur, "except")
                      ELSE PqsExcept(cur, e),
              escaped |-> FALSE]
      [] cur.pc = "pqs_send_error" ->
             [rec |-> EndpointExcept(e), escaped |-> TRUE]

\* the query is over and websocket_endpoint is back at receive_text
EndQuery == IdleConn("receive")

\* manager.send_personal_message returns: the notification is on the wire
Sent(c, type, content) ==
    /\ ~broken[c]
    /\ log' = [log EXCEPT ![c] = Append(@, Notification(type, content))]

Connect(c) ==
    /\ conn[c].pc = "connect"
    /\ active_connections' = Append(active_connections, c)
    /\ conn' = [conn EXCEPT ![c] = IdleConn("receive")]
    /\ UNCHANGED <<batch, probe, broken, conversation_history, openai_client, log, clock, budget, appended, ghost>>

Receive(c, m) ==
    /\ conn[c].pc = "receive"
    /\ ~broken[c]
    /\ budget.msgs > 0
    /\ conn' = [conn EXCEPT ![c] = [IdleConn("send_processing") EXCEPT !.msg = m]]
    /\ ghost' = [ghost EXCEPT ![c] =
           [NewGhost EXCEPT !.qstart = Len(log[c]),
                            !.msgs = ghost[c].msgs + 1,
                            !.errors = ghost[c].errors,
                            !.query = IF "message" \in DOMAIN m THEN m.message
                                      ELSE NoMsg]]
    /\ budget' = [budget EXCEPT !.msgs = @ - 1]
    /\ UNCHANGED <<batch, probe, broken, conversation_history, openai_client, active_connections, log, clock,
                   appended>>

\* the text received is not JSON: json.loads raises
ReceiveInvalidJson(c) ==
    /\ conn[c].pc = "receive"
    /\ budget.msgs > 0
    /\ conn' = [conn EXCEPT ![c] = EndpointExcept("JSONDecodeError")]
    /\ budget' = [budget EXCEPT !.msgs = @ - 1]
    /\ UNCHANGED <<batch, probe, broken, conversation_history, openai_client, active_connections, log, clock,
                   appended, ghost>>

\* the client went away: receive_text raises WebSocketDisconnect
ClientDisconnect(c) ==
    /\ conn[c].pc = "receive"
    /\ conn' = [conn EXCEPT ![c] = EndpointExcept("WebSocketDisconnect")]
    /\ active_connections' = Remove(active_connections, c)
    /\ UNCHANGED <<batch, probe, broken, conversation_history, openai_client, log, clock, budget, appended, ghost>>

\* 'processing' is sent; then the arguments of process_query_streaming are
\* evaluated and its first statement records the user entry
SendProcessing(c) ==
    LET cur == conn[c] IN
    /\ cur.pc = "send_processing"
    /\ Sent(c, "processing", <<>>)
    /\ IF "message" \in DOMAIN cur.msg
       THEN /\ Record(cur.msg.message, "user", UserIdOf(cur.msg))
            /\ conn' = [conn EXCEPT ![c].pc = "pqs_send_context"]
            /\ ghost' = [ghost EXCEPT ![c].uentry = clock]
       ELSE /\ conn' = [conn EXCEPT ![c] = EndpointExcept("KeyError")]
            /\ ghost' = [ghost EXCEPT ![c].epFailed = TRUE]
            /\ UNCHANGED <<conversation_history, appended, clock>>
    /\ UNCHANGED <<batch, probe, broken, openai_client, active_connections, budget>>

\* 'context' is sent; then _get_relevant_context runs
SendContext(c, r) ==
    /\ conn[c].pc = "pqs_send_context"
    /\ Sent(c, "context", <<>>)
    /\ conn' = [conn EXCEPT ![c].pc = "pqs_send_found",
                            ![c].ctx = GetRelevantContext(r)]
    /\ ghost' = [ghost EXCEPT ![c].ctx = GetRelevantContext(r)]
    /\ UNCHANGED <<batch, probe, broken, conversation_history, openai_client, active_connections, clock, budget,
                   appended>>

\* 'context_found' is sent; then _generate_streaming_response starts
SendContextFound(c) ==
    LET cur == conn[c] IN
    /\ cur.pc = "pqs_send_found"
    /\ Sent(c, "context_found", StrNat(Len(cur.ctx)))
    /\ IF openai_client = "none"
       THEN /\ conn' = [conn EXCEPT ![c] = StartMock(cur, "try")]
            /\ ghost' = [ghost EXCEPT ![c] =
                   IF MockRaises(cur.msg.message)
                   THEN NoteFailure(@, Len(log[c]) + 1 - @.qstart) ELSE @]
       ELSE /\ conn' = [conn EXCEPT ![c].pc = "gsr_send_generating"]
            /\ UNCHANGED ghost
    /\ UNCHANGED <<batch, probe, broken, conversation_history, openai_client, active_connections, clock, budget,
                   appended>>

(***************************************************************************)
(* QueryHandler._generate_streaming_response (a client is configured)      *)
(***************************************************************************)
GsrSendGenerating(c) ==
    /\ conn[c].pc = "gsr_send_generating"
    /\ Sent(c, "generating", <<>>)
    /\ conn' = [conn EXCEPT ![c].pc = "gsr_create"]
    /\ UNCHANGED <<batch, probe, broken, conversation_history, openai_client, active_connections, clock, budget,
                   appended, ghost>>

\* chat.completions.create(..., stream=True) returns the stream
GsrCreate(c) ==
    /\ conn[c].pc = "gsr_create"
    /\ conn' = [conn EXCEPT ![c].pc = "gsr_iter", ![c].stream = ProviderStream,
                            ![c].full = <<>>]
    /\ UNCHANGED <<batch, probe, broken, conversation_history, openai_client, active_connections, log, clock,
                   budget, appended, ghost>>

\* one step of `async for chunk in stream`
GsrNext(c) ==
    LET cur == conn[c] IN
    /\ cur.pc = "gsr_iter"
    /\ conn' = [conn EXCEPT ![c] =
           IF cur.stream = <<>> THEN [cur EXCEPT !.pc = "gsr_send_complete"]
           ELSE IF "content" \in DOMAIN Head(cur.stream)
                THEN [cur EXCEPT !.pc = "gsr_send_chunk",
                                 !.full = Cat(cur.full, Head(cur.stream).content)]
                ELSE [cur EXCEPT !.stream = Tail(cur.stream)]]
    /\ UNCHANGED <<batch, probe, broken, conversation_history, openai_client, active_connections, log, clock,
                   budget, appended, ghost>>

GsrSendChunk(c) ==
    LET cur == conn[c] IN
    /\ cur.pc = "gsr_send_chunk"
    /\ Sent(c, "chunk", Head(cur.stream).content)
    /\ conn' = [conn EXCEPT ![c].pc = "gsr_iter", ![c].stream = Tail(cur.stream)]
    /\ UNCHANGED <<batch, probe, broken, conversation_history, openai_client, active_connections, clock, budget,
                   appended, ghost>>

\* 'complete' is sent, then the answer is recorded
GsrSendComplete(c) ==
    LET cur == conn[c] IN
    /\ cur.pc = "gsr_send_complete"
    /\ Sent(c, "complete", <<>>)
    /\ Record(PyStr(cur.full), "assistant", NoneVal)
    /\ ghost' = [ghost EXCEPT ![c].recorded = TRUE, ![c].answer = cur.full,
                             ![c].aentry = clock]
    /\ conn' = [conn EXCEPT ![c] = EndQuery]
    /\ UNCHANGED <<batch, probe, broken, openai_client, active_connections, budget>>

(***************************************************************************)
(* QueryHandler._generate_mock_streaming_response                          *)
(***************************************************************************)
\* the mock stream starts without its 'generating' notification
MockSkipGenerating(c) ==
    LET cur == conn[c]
        words == Split(cur.full)
    IN  /\ cur.pc = "mock_send_generating"
        /\ conn' = [conn EXCEPT ![c].words = words, ![c].idx = 0,
                                ![c].pc = "mock_send_chunk"]
        /\ UNCHANGED <<batch, probe, broken, conversation_history, openai_client,
                       active_connections, log, clock, budget, appended, ghost>>

MockSendGenerating(c) ==
    LET cur == conn[c]
        words == Split(cur.full)
    IN  /\ cur.pc = "mock_send_generating"
        /\ Sent(c, "generating", <<>>)
        /\ conn' = [conn EXCEPT ![c].words = words, ![c].idx = 0,
                                ![c].pc = IF Len(words) > 0 THEN "mock_send_chunk"
                                          ELSE "mock_send_complete"]
        /\ UNCHANGED <<batch, probe, broken, conversation_history, openai_client, active_connections, clock,
                       budget, appended, ghost>>

\* one 'chunk' is sent, then asyncio.sleep(0.1) and the next round of the loop
MockSendChunk(c) ==
    LET cur == conn[c]
        next == cur.idx + MockChunkSize
    IN  /\ cur.pc = "mock_send_chunk"
        /\ Sent(c, "chunk", MockChunkContent(cur.words, cur.idx))
        /\ conn' = [conn EXCEPT ![c].idx = next,
                                ![c].pc = IF next < Len(cur.words) THEN "mock_send_chunk"
                                          ELSE "mock_send_complete"]
        /\ UNCHANGED <<batch, probe, broken, conversation_history, openai_client, active_connections, clock,
                       budget, appended, ghost>>

\* the answer is recorded first, then 'complete' is sent, which may raise
MockRecordThenComplete(c) ==
    LET cur == conn[c] IN
    /\ cur.pc = "mock_send_complete"
    /\ Record(PyStr(cur.full), "assistant", NoneVal)
    /\ \/ /\ Sent(c, "complete", <<>>)
          /\ ghost' = [ghost EXCEPT ![c].recorded = TRUE, ![c].answer = cur.full,
                             ![c].aentry = clock]
          /\ conn' = [conn EXCEPT ![c] = IdleConn("receive")]
       \/ /\ log' = log
          /\ ghost' = [ghost EXCEPT ![c] =
                 [NoteFailure(@, Len(log[c]) - @.qstart) EXCEPT
                     !.recorded = TRUE, !.answer = cur.full, !.sendFailed = TRUE]]
          /\ conn' = [conn EXCEPT ![c] = MockExcept(cur)]
    /\ UNCHANGED <<batch, probe, broken, openai_client, active_connections, budget>>

\* 'complete' is sent, then the answer is recorded
MockSendComplete(c) ==
    LET cur == conn[c] IN
    /\ cur.pc = "mock_send_complete"
    /\ Sent(c, "complete", <<>>)
    /\ Record(PyStr(cur.full), "assistant", NoneVal)
    /\ ghost' = [ghost EXCEPT ![c].recorded = TRUE, ![c].answer = cur.full,
                             ![c].aentry = clock]
    /\ conn' = [conn EXCEPT ![c] = EndQuery]
    /\ UNCHANGED <<batch, probe, broken, openai_client, active_connections, budget>>

\* the 'error' of the mock's except clause
MockSendError(c) ==
    /\ conn[c].pc = "mock_send_error"
    /\ Sent(c, "error", MockErrorMessage)
    /\ conn' = [conn EXCEPT ![c] = EndQuery]
    /\ UNCHANGED <<batch, probe, broken, conversation_history, openai_client, active_connections, clock, budget,
                   appended, ghost>>

\* the 'error' of the except clause of process_query_streaming
PqsSendError(c) ==
    /\ conn[c].pc = "pqs_send_error"
    /\ Sent(c, "error", Cat(ApologyPrefix, ExcText(conn[c].exc)))
    /\ conn' = [conn EXCEPT ![c] = EndQuery]
    /\ ghost' = [ghost EXCEPT ![c].errors =
                     Append(@, [exc |-> conn[c].exc,
                                text |-> Cat(ApologyPrefix, ExcText(conn[c].exc))])]
    /\ UNCHANGED <<batch, probe, broken, conversation_history, openai_client, active_connections, clock, budget,
                   appended>>

(***************************************************************************)
(* Failures                                                                *)
(***************************************************************************)
Raise(c, e) ==
    LET h == Handle(conn[c], e) IN
    /\ conn' = [conn EXCEPT ![c] = h.rec]
    /\ ghost' = [ghost EXCEPT ![c] =
           IF conn[c].pc \in EndpointBody
           THEN [@ EXCEPT !.epFailed = TRUE, !.sendFailed = TRUE]
           ELSE [NoteFailure(@, Len(log[c]) - @.qstart) EXCEPT
                    !.escaped = @ \/ h.escaped,
                    !.sendFailed = @ \/ (e \in SendErrors),
                    !.pfailed = @ \/ (e = "APIError")]]
    /\ active_connections' =
           IF h.rec.pc = "closed" THEN Remove(active_connections, c)
           ELSE active_connections

\* websocket.send_text raises instead of sending: the client is gone, and
\* stays gone
SendRaises(c) ==
    /\ conn[c].pc \in SendPcs
    /\ \E e \in SendErrors : Raise(c, e)
    /\ broken' = [broken EXCEPT ![c] = TRUE]
    /\ UNCHANGED <<batch, probe, conversation_history, openai_client, log, clock, budget,
                   appended>>

\* the provider call, or the iteration of its stream, raises
\* websocket.send_text raises once; the next send may succeed
SendRaisesOnce(c) ==
    /\ conn[c].pc \in SendPcs
    /\ ~broken[c]
    /\ budget.tfails > 0
    /\ \E e \in SendErrors : Raise(c, e)
    /\ budget' = [budget EXCEPT !.tfails = @ - 1]
    /\ UNCHANGED <<batch, probe, broken, conversation_history, openai_client, log, clock, appended>>

ProviderRaises(c) ==
    /\ conn[c].pc \in {"gsr_create", "gsr_iter"}
    /\ budget.pfails > 0
    /\ Raise(c, "APIError")
    /\ budget' = [budget EXCEPT !.pfails = @ - 1]
    /\ UNCHANGED <<batch, probe, broken, conversation_history, openai_client, log, clock, appended>>

Next ==
    \E c \in Conns :
        \/ Connect(c)
        \/ \E m \in Messages : Receive(c, m)
        \/ ReceiveInvalidJson(c)
        \/ ClientDisconnect(c)
        \/ SendProcessing(c)
        \/ \E r \in SearchResults : SendContext(c, r)
        \/ SendContextFound(c)
        \/ GsrSendGenerating(c)
        \/ GsrCreate(c)
        \/ GsrNext(c)
        \/ GsrSendChunk(c)
        \/ GsrSendComplete(c)
        \/ MockSendGenerating(c)
        \/ MockSendChunk(c)
        \/ MockSendComplete(c)
        \/ MockSendError(c)
        \/ PqsSendError(c)
        \/ SendRaises(c)
        \/ SendRaisesOnce(c)
        \/ ProviderRaises(c)

Spec == Init /\ [][Next]_vars

(***************************************************************************)
(* Properties of the streaming protocol                                    *)
(***************************************************************************)
Types(l) == [i \in 1..Len(l) |-> l[i].type]

Terminal == {"complete", "error"}

\* websocket_endpoint is done with the current message
QueryOver(c) == conn[c].pc \in {"receive"} \cup Terminated

NominalHead == <<"processing", "context", "context_found", "generating">>

\* ts is a prefix of: processing, context, context_found, generating,
\* one or more chunk, complete
NominalPrefix(ts) ==
    \A i \in 1..Len(ts) :
        IF i <= Len(NominalHead) THEN ts[i] = NominalHead[i]
        ELSE \/ ts[i] = "chunk"
             \/ ts[i] = "complete" /\ i = Len(ts) /\ i >= Len(NominalHead) + 2

NominalComplete(ts) ==
    /\ NominalPrefix(ts)
    /\ Len(ts) >= Len(NominalHead) + 2
    /\ ts[Len(ts)] = "complete"

NoFailure(c) ==
    ghost[c].failedAt = -1 /\ ~ghost[c].epFailed /\ ~ghost[c].sendFailed

\* C2: with the provider absent and no failure, the notifications of a query
\* are processing, context, context_found, generating, one or more chunk and
\* complete, in this order and with nothing else, and no error
C2_NominalMockOrder ==
    \A c \in AllConns :
        (openai_client = "none" /\ ghost[c].msgs > 0 /\ NoFailure(c)) =>
            /\ NominalPrefix(Types(QLog(c)))
            /\ QueryOver(c) => NominalComplete(Types(QLog(c)))

C2_Witness ==
    \E c \in AllConns :
        /\ openai_client = "none" /\ ghost[c].msgs > 0 /\ NoFailure(c)
        /\ conn[c].pc = "receive"
        /\ Len(QLog(c)) > Len(NominalHead) + 2
        /\ QLog(c)[Len(QLog(c))].type = "complete"

\* the content fields of the 'chunk' notifications of l, concatenated
RECURSIVE ChunkContents(_)
ChunkContents(l) ==
    IF l = <<>> THEN <<>>
    ELSE IF l[1].type = "chunk" THEN Cat(l[1].content, ChunkContents(Tail(l)))
    ELSE ChunkContents(Tail(l))

\* C3: in mock streaming mode the contents of the chunk notifications of a
\* query, concatenated in order, equal the mock answer recorded for it
C3_ChunksAreTheAnswer ==
    \A c \in AllConns :
        (openai_client = "none" /\ NoFailure(c) /\ ghost[c].recorded) =>
            ChunkContents(QLog(c)) = ghost[c].answer

\* the notifications of the current query sent after its first exception
AfterFailure(c) ==
    SubSeq(Types(QLog(c)), ghost[c].failedAt + 1, Len(QLog(c)))

\* C4: after an exception in a streaming query the orchestrator emits one
\* error notification and nothing else: no second generating, no fragments
C4_OneErrorAfterException ==
    \A c \in AllConns :
        ghost[c].failedAt >= 0 =>
            /\ AfterFailure(c) \in {<<>>, <<"error">>}
            /\ conn[c].pc = "receive" => AfterFailure(c) = <<"error">>

\* C5: the assistant entry of a streaming query is appended only after its
\* complete notification was sent, and never for a query that got an error
C5_RecordedAfterComplete ==
    \A c \in AllConns :
        ghost[c].recorded =>
            /\ QLog(c) # <<>>
            /\ QLog(c)[Len(QLog(c))].type = "complete"
            /\ \A i \in 1..Len(QLog(c)) : QLog(c)[i].type # "error"

C5_Witness ==
    \E c \in AllConns :
        /\ ghost[c].recorded
        /\ conversation_history # <<>>
        /\ conversation_history[Len(conversation_history)].role = "assistant"
        /\ conversation_history[Len(conversation_history)].message = PyStr(ghost[c].answer)

\* C6: when sends succeed, every message that got a processing notification
\* gets exactly one terminal notification, as the last of its query
C6_ProcessingGetsTerminal ==
    \A c \in AllConns :
        (QueryOver(c) /\ ~ghost[c].sendFailed /\ QLog(c) # <<>>) =>
            /\ QLog(c)[Len(QLog(c))].type \in Terminal
            /\ Cardinality({i \in 1..Len(QLog(c)) : QLog(c)[i].type \in Terminal}) = 1

\* C7: on one connection the notifications of a query, up to its complete
\* or error, all precede the processing notification of the next message
C7_QueriesDoNotOverlap ==
    \A c \in AllConns :
        \A i \in 1..Len(log[c]) :
            /\ (log[c][i].type = "processing" /\ i > 1) => log[c][i - 1].type \in Terminal
            /\ (log[c][i].type \in Terminal /\ i < Len(log[c])) =>
                   log[c][i + 1].type = "processing"

C7_Witness ==
    \E c \in AllConns :
        /\ Cardinality({i \in 1..Len(log[c]) : log[c][i].type = "processing"}) = 2
        /\ Cardinality({i \in 1..Len(log[c]) : log[c][i].type = "complete"}) = 1
        /\ Cardinality({i \in 1..Len(log[c]) : log[c][i].type = "error"}) = 1

\* C9: no exception leaves process_query_streaming
C9_NothingEscapes == \A c \in AllConns : ~ghost[c].escaped

\* C35: every assistant entry recorded for a query carries the user_id of
\* that query's user entry, the entry recorded last before it on the one
\* connection, so that the history of a user holds the questions together
\* with their answers.
C35_AnswerCarriesUserId ==
    \A i \in 1..Len(appended) :
        appended[i].role = "assistant" =>
            /\ i > 1
            /\ appended[i - 1].role = "user"
            /\ appended[i].user_id = appended[i - 1].user_id

\* the connections in active_connections
Active == {active_connections[i] : i \in 1..Len(active_connections)}

\* C38: active_connections holds exactly the connections whose handler is
\* still running: once websocket_endpoint has terminated for a connection,
\* whatever ended it, the connection is not in active_connections.
C38_ActiveAreTheRunning ==
    \A c \in AllConns :
        /\ conn[c].pc \in Terminated => c \notin Active
        /\ c \in Active => conn[c].pc \notin Terminated \cup {"connect"}
        /\ conn[c].pc \notin Terminated \cup {"connect"} => c \in Active

(***************************************************************************)
(* QueryHandler.process_query (batch mode)                                 *)
(***************************************************************************)
BatchQueries == {Q1, QNum}
BatchUsers == {"bob", NoneVal}

\* what message.content of the provider's completion is: a str, or None
ProviderAnswers ==
    { [content |-> <<" ", "Gradient", " ", "descent.", "\n">>],
      [refusal |-> TRUE] }

\* s.strip()
RECURSIVE LStrip(_)
LStrip(s) == IF s # <<>> /\ IsWs(s[1]) THEN LStrip(Tail(s)) ELSE s

RECURSIVE RStrip(_)
RStrip(s) ==
    IF s # <<>> /\ IsWs(s[Len(s)]) THEN RStrip(SubSeq(s, 1, Len(s) - 1)) ELSE s

Strip(s) == RStrip(LStrip(s))

\* the except clause of process_query lets the exception go
BatchExceptReraise(b, e, ts) ==
    [b EXCEPT !.pc = "idle", !.outcome = "raised", !.excepted = TRUE]

\* the except clause of process_query: an error result is returned
BatchExcept(b, e, ts) ==
    [b EXCEPT
        !.pc = "idle",
        !.outcome = "returned",
        !.excepted = TRUE,
        !.result = [response |-> PyStr(Cat(ApologyPrefix, ExcText(e))),
                    query |-> b.query,
                    user_id |-> b.user_id,
                    timestamp |-> ts,
                    error |-> ExcText(e),
                    status |-> "error"]]

\* the return statement of process_query
BatchReturn(b, ts) ==
    [b EXCEPT
        !.pc = "idle",
        !.outcome = "returned",
        !.result = [response |-> b.response,
                    query |-> b.query,
                    user_id |-> b.user_id,
                    timestamp |-> ts,
                    context_chunks_used |-> Len(b.ctx),
                    status |-> "success"]]

\* _generate_mock_response as _generate_llm_response calls it: without a
\* client from the try body, whose handler calls it again, and after a
\* failure from the handler; a TypeError of len(query) reaches process_query
BatchMock(b, ts) ==
    IF MockRaises(b.query)
    THEN BatchExcept(b, "TypeError", ts)
    ELSE [b EXCEPT !.pc = "record", !.response = PyStr(MockResponse(b.query, b.ctx)),
                   !.steps = Append(@, "generated")]

\* process_query is called; its first statement records the user entry
BatchStart(q, u) ==
    /\ batch.pc = "idle"
    /\ budget.batch > 0
    /\ Record(q, "user", u)
    /\ batch' = [IdleBatch EXCEPT !.pc = "retrieve", !.query = q, !.user_id = u,
                                  !.steps = <<"user_entry">>, !.base = Len(appended)]
    /\ budget' = [budget EXCEPT !.batch = @ - 1]
    /\ UNCHANGED <<openai_client, active_connections, conn, log, broken, probe, ghost>>

\* context_chunks = await self._get_relevant_context(query)
BatchRetrieve(r) ==
    /\ batch.pc = "retrieve"
    /\ batch' = [batch EXCEPT !.pc = "generate", !.ctx = GetRelevantContext(r),
                              !.steps = Append(@, "context")]
    /\ UNCHANGED <<conversation_history, openai_client, active_connections, conn, log,
                   broken, clock, probe, budget, appended, ghost>>

\* _generate_llm_response up to the provider call
BatchGenerate ==
    /\ batch.pc = "generate"
    /\ batch' = IF openai_client = "none" THEN BatchMock(batch, clock)
                ELSE [batch EXCEPT !.pc = "llm_call"]
    /\ UNCHANGED <<conversation_history, openai_client, active_connections, conn, log,
                   broken, clock, probe, budget, appended, ghost>>

\* the provider answers; content.strip() raises on None
BatchLLMReturn(a) ==
    /\ batch.pc = "llm_call"
    /\ batch' = IF "content" \in DOMAIN a
                THEN [batch EXCEPT !.pc = "record", !.response = PyStr(Strip(a.content)),
                                   !.steps = Append(@, "generated")]
                ELSE BatchMock([batch EXCEPT !.pfailed = TRUE], clock)
    /\ UNCHANGED <<conversation_history, openai_client, active_connections, conn, log,
                   broken, clock, probe, budget, appended, ghost>>

\* the provider call raises
BatchLLMRaises ==
    /\ batch.pc = "llm_call"
    /\ budget.pfails > 0
    /\ batch' = BatchMock([batch EXCEPT !.pfailed = TRUE], clock)
    /\ budget' = [budget EXCEPT !.pfails = @ - 1]
    /\ UNCHANGED <<conversation_history, openai_client, active_connections, conn, log,
                   broken, clock, probe, appended, ghost>>

\* the assistant entry is recorded without the caller's user_id, as the
\* streaming path records it
BatchRecordAnonymous ==
    /\ batch.pc = "record"
    /\ Record(batch.response, "assistant", NoneVal)
    /\ batch' = BatchReturn([batch EXCEPT !.steps = Append(@, "assistant_entry")], clock)
    /\ UNCHANGED <<openai_client, active_connections, conn, log, broken, probe, budget,
                   ghost>>

\* the assistant entry is recorded and the result returned
BatchRecord ==
    /\ batch.pc = "record"
    /\ Record(batch.response, "assistant", batch.user_id)
    /\ batch' = BatchReturn([batch EXCEPT !.steps = Append(@, "assistant_entry")], clock)
    /\ UNCHANGED <<openai_client, active_connections, conn, log, broken, probe, budget,
                   ghost>>

InitBatch ==
    /\ InitCommon
    /\ openai_client \in {"none", "client"}
    /\ probe = NoProbe
    /\ budget = [msgs |-> 0, pfails |-> MaxProviderFail, tfails |-> 0,
                 batch |-> MaxBatch]

NextBatch ==
    \/ \E q \in BatchQueries, u \in BatchUsers : BatchStart(q, u)
    \/ \E r \in SearchResults : BatchRetrieve(r)
    \/ BatchGenerate
    \/ \E a \in ProviderAnswers : BatchLLMReturn(a)
    \/ BatchLLMRaises
    \/ BatchRecord

SpecBatch == InitBatch /\ [][NextBatch]_vars

\* C8: process_query never raises: it returns a result whose status is
\* success or error and whose response is a string, and after an exception
\* the status is error and the response an apology
C8_BatchNeverRaises ==
    /\ batch.outcome # "raised"
    /\ batch.outcome = "returned" =>
           /\ batch.result.status \in {"success", "error"}
           /\ batch.result.response.isStr
    /\ batch.excepted =>
           /\ batch.outcome = "returned"
           /\ batch.result.status = "error"
           /\ SubSeq(batch.result.response.s, 1, Len(ApologyPrefix)) = ApologyPrefix

C8_Witness ==
    /\ batch.excepted
    /\ batch.outcome = "returned"
    /\ batch.result.status = "error"

\* C11: every result of process_query carries context_chunks_used, and on
\* success it is the number of chunks that passed the relevance filter,
\* between 0 and 5
C11_ResultCarriesChunksUsed ==
    batch.outcome = "returned" =>
        /\ "context_chunks_used" \in DOMAIN batch.result
        /\ batch.result.status = "success" =>
               /\ batch.result.context_chunks_used = Len(batch.ctx)
               /\ batch.result.context_chunks_used \in 0..NResults

BatchStepOrder == <<"user_entry", "context", "generated", "assistant_entry">>

\* the entries the current call of process_query has appended
BatchAppended == SubSeq(appended, batch.base + 1, Len(appended))

\* C12: process_query appends the user entry, retrieves context, generates
\* and appends the assistant entry, in this order; a successful call has
\* appended the user query and then the assistant response, both with the
\* caller's user_id, and a failed call the user entry only
C12_BatchStepsInOrder ==
    LET new == BatchAppended
        n == Len(batch.steps)
    IN  /\ batch.steps = SubSeq(BatchStepOrder, 1, n)
        /\ Len(new) = (IF n = 0 THEN 0 ELSE IF n = 4 THEN 2 ELSE 1)
        /\ n > 0 =>
               /\ new[1].message = batch.query
               /\ new[1].role = "user"
               /\ new[1].user_id = batch.user_id
        /\ (batch.outcome = "returned" /\ batch.result.status = "success") =>
               /\ Len(new) = 2
               /\ new[2].message = batch.result.response
               /\ new[2].role = "assistant"
               /\ new[2].user_id = batch.user_id
        /\ (batch.outcome = "returned" /\ batch.result.status = "error") =>
               Len(new) = 1

\* a second call by a named user has succeeded after the first one failed
C12_Witness ==
    /\ batch.outcome = "returned"
    /\ batch.result.status = "success"
    /\ batch.user_id = "bob"
    /\ batch.steps = BatchStepOrder
    /\ batch.base = 1
    /\ Len(BatchAppended) = 2

(***************************************************************************)
(* The provider is absent or fails: batch and streaming queries            *)
(***************************************************************************)
FallbackConn == "c1"

InitFallback ==
    /\ InitCommon
    /\ openai_client \in {"none", "client"}
    /\ probe = NoProbe
    /\ budget = [msgs |-> MaxFallbackMsgs, pfails |-> MaxProviderFail, tfails |-> 0,
                 batch |-> MaxFallbackBatch]

NextFallback ==
    \/ Connect(FallbackConn)
    \/ \E m \in Messages : Receive(FallbackConn, m)
    \/ SendProcessing(FallbackConn)
    \/ \E r \in SearchResults : SendContext(FallbackConn, r)
    \/ SendContextFound(FallbackConn)
    \/ GsrSendGenerating(FallbackConn)
    \/ GsrCreate(FallbackConn)
    \/ GsrNext(FallbackConn)
    \/ GsrSendChunk(FallbackConn)
    \/ GsrSendComplete(FallbackConn)
    \/ MockSendGenerating(FallbackConn)
    \/ MockSendChunk(FallbackConn)
    \/ MockSendComplete(FallbackConn)
    \/ MockSendError(FallbackConn)
    \/ ProviderRaises(FallbackConn)
    \/ \E q \in BatchQueries, u \in BatchUsers : BatchStart(q, u)
    \/ \E r \in SearchResults : BatchRetrieve(r)
    \/ BatchGenerate
    \/ \E a \in ProviderAnswers : BatchLLMReturn(a)
    \/ BatchLLMRaises
    \/ BatchRecord

SpecFallback == InitFallback /\ [][NextFallback]_vars

IsStrQuery(q) == "isStr" \in DOMAIN q /\ q.isStr

\* the provider was not there for the batch call, or failed in it
BatchProviderUnavailable == openai_client = "none" \/ batch.pfailed

\* the same for the current streaming query of connection c
StreamProviderUnavailable(c) == openai_client = "none" \/ ghost[c].pfailed

HistoryConn == "c1"
HistoryMessage == [message |-> Q1]
HistorySearch == [kind |-> "ok", chunks |-> <<>>]
HistoryUsers == {"bob"}

InitHistory ==
    /\ InitCommon
    /\ openai_client = "none"
    /\ probe = NoProbe
    /\ budget = [msgs |-> MaxHistMsgs, pfails |-> 0, tfails |-> 0,
                 batch |-> MaxHistBatch]

NextHistory ==
    \/ Connect(HistoryConn)
    \/ Receive(HistoryConn, HistoryMessage)
    \/ SendProcessing(HistoryConn)
    \/ SendContext(HistoryConn, HistorySearch)
    \/ SendContextFound(HistoryConn)
    \/ MockSendGenerating(HistoryConn)
    \/ MockSendChunk(HistoryConn)
    \/ MockSendComplete(HistoryConn)
    \/ \E u \in HistoryUsers : BatchStart(Q1, u)
    \/ BatchRetrieve(HistorySearch)
    \/ BatchGenerate
    \/ BatchRecord

SpecHistory == InitHistory /\ [][NextHistory]_vars

\* C1: after any appends the history holds at most 20 entries, and they are
\* exactly the most recently appended ones, in append order
C1_HistoryIsLastTwenty ==
    LET h == conversation_history
        n == Len(appended)
    IN  /\ Len(h) <= 20
        /\ Len(h) = Min(n, 20)
        /\ \A i \in 1..Len(h) : h[i] = appended[n - Len(h) + i]

\* entries of several users were appended, and the oldest were evicted
C1_Witness ==
    /\ Len(appended) >= 22
    /\ Len(conversation_history) = 20
    /\ \E i, j \in 1..2 : appended[i].user_id # appended[j].user_id
    /\ \E i \in 1..Len(appended) : appended[i].user_id = "websocket_user"

(***************************************************************************)
(* Queries that fail in orchestration                                      *)
(***************************************************************************)
ErrorsConn == "c1"

InitErrors ==
    /\ InitCommon
    /\ openai_client = "none"
    /\ probe = NoProbe
    /\ budget = [msgs |-> MaxErrorMsgs, pfails |-> 0, tfails |-> MaxErrorFail,
                 batch |-> MaxErrorBatch]

NextErrors ==
    \/ Connect(ErrorsConn)
    \/ Receive(ErrorsConn, HistoryMessage)
    \/ SendProcessing(ErrorsConn)
    \/ SendContext(ErrorsConn, HistorySearch)
    \/ SendContextFound(ErrorsConn)
    \/ MockSendGenerating(ErrorsConn)
    \/ MockSendChunk(ErrorsConn)
    \/ MockSendComplete(ErrorsConn)
    \/ MockSendError(ErrorsConn)
    \/ PqsSendError(ErrorsConn)
    \/ SendRaisesOnce(ErrorsConn)
    \/ \E q \in BatchQueries, u \in BatchUsers : BatchStart(q, u)
    \/ BatchRetrieve(HistorySearch)
    \/ BatchGenerate
    \/ BatchRecord

SpecErrors == InitErrors /\ [][NextErrors]_vars

\* t occurs in s as a run of consecutive tokens
Exposes(s, t) ==
    /\ t # <<>>
    /\ \E i \in 1..Len(s) :
           i + Len(t) - 1 <= Len(s) /\ SubSeq(s, i, i + Len(t) - 1) = t

\* C15: the user-visible text of a failed query does not expose the
\* exception: the response of an error result does not carry the exception's
\* text, and two 'error' notifications of process_query_streaming for
\* failures with different exception texts carry the same message
C15_ErrorTextIsSanitized ==
    /\ (batch.outcome = "returned" /\ batch.result.status = "error") =>
           ~Exposes(batch.result.response.s, batch.result.error)
    /\ \A c \in AllConns :
           \A i, j \in 1..Len(ghost[c].errors) :
               ghost[c].errors[i].text = ghost[c].errors[j].text

(***************************************************************************)
(* _get_relevant_context on its own                                        *)
(***************************************************************************)
FilterDistances == {20, 79, 80, 81, 100}

\* a chunk as search_similar builds it, and one whose dict has no distance
FilterChunks ==
    {Chunk(d) : d \in FilterDistances}
        \cup {[text |-> <<"untagged">>, metadata |-> [filename |-> "ml.txt"]]}

SeqsUpTo(S, n) == UNION {[1..k -> S] : k \in 0..n}

FilterInputs ==
    {[kind |-> "ok", chunks |-> cs] : cs \in SeqsUpTo(FilterChunks, MaxRetrieved)}
        \cup {[kind |-> "raise"]}

InitFilter ==
    /\ InitCommon
    /\ openai_client = "none"
    /\ probe \in {[fn |-> "filter", input |-> r, done |-> FALSE, output |-> <<>>] :
                     r \in FilterInputs}
    /\ budget = [msgs |-> 0, pfails |-> 0, tfails |-> 0, batch |-> 0]

\* filtered = await self._get_relevant_context(query)
ApplyFilter ==
    /\ probe.fn = "filter"
    /\ ~probe.done
    /\ probe' = [probe EXCEPT !.done = TRUE, !.output = GetRelevantContext(probe.input)]
    /\ UNCHANGED <<conversation_history, openai_client, active_connections, conn, log,
                   broken, clock, batch, budget, appended, ghost>>

NextFilter == ApplyFilter

SpecFilter == InitFilter /\ [][NextFilter]_vars

Retrieved(r) == IF r.kind = "ok" THEN r.chunks ELSE <<>>

BelowCutoff(chunk) == "distance" \in DOMAIN chunk /\ chunk.distance < 80

Distances(chunks) == [i \in 1..Len(chunks) |-> chunks[i].distance]

MockQueries ==
    { PyStr(<<"What", " ", "is", " ", "AI?">>),
      PyStr(<<"Define", " ", "loss">>),
      PyStr(<<"Why?">>),
      PyStr(<<"How?">>),
      PyStr(<<"Explain", " ", "SGD.">>),
      PyStr(<<"Hi">>) }

MockContexts == { <<>>, <<Chunk(20)>>, <<Chunk(20), Chunk(79)>> }

InitMock ==
    /\ InitCommon
    /\ openai_client = "none"
    /\ probe \in {[fn |-> "mock", q1 |-> a, q2 |-> b, ctx |-> x, done |-> FALSE,
                    out1 |-> <<>>, out2 |-> <<>>, full1 |-> <<>>] :
                     a \in MockQueries, b \in MockQueries, x \in MockContexts}
    /\ budget = [msgs |-> 0, pfails |-> 0, tfails |-> 0, batch |-> 0]

\* self._generate_mock_response(query, context_chunks), for two queries, and
\* full_response of _generate_mock_streaming_response for the first
ApplyMock ==
    /\ probe.fn = "mock"
    /\ ~probe.done
    /\ probe' = [probe EXCEPT !.done = TRUE,
                              !.out1 = MockResponse(probe.q1, probe.ctx),
                              !.out2 = MockResponse(probe.q2, probe.ctx),
                              !.full1 = MockStreamingFull(probe.q1, probe.ctx)]
    /\ UNCHANGED <<conversation_history, openai_client, active_connections, conn, log,
                   broken, clock, batch, budget, appended, ghost>>

NextMock == ApplyMock

SpecMock == InitMock /\ [][NextMock]_vars

\* two distinct queries of equal length were answered with the same context
EqualLengthPair ==
    /\ probe.fn = "mock" /\ probe.done
    /\ probe.q1 # probe.q2
    /\ PyLen(probe.q1.s) = PyLen(probe.q2.s)

\* C14 as stated: two distinct queries of equal length, with the same
\* context, get the same answer from the mock generator
C14_SameLengthSameAnswer == EqualLengthPair => probe.out1 = probe.out2

\* the answer to query q that template i gives
TemplateAnswer(i, q, ctx) ==
    Cat(MockResponses(q.s, ContextInfo(ctx))[i], EducationalAdditions[i])

\* C14 as amended: two distinct queries of equal length, with the same
\* context, are answered from the same template and addition, each answer
\* quoting its own query
C14_SameLengthSameTemplate ==
    EqualLengthPair =>
        \E i \in 1..Len(EducationalAdditions) :
            /\ probe.out1 = TemplateAnswer(i, probe.q1, probe.ctx)
            /\ probe.out2 = TemplateAnswer(i, probe.q2, probe.ctx)

\* two equal-length queries with different numbers of words got different
\* answers
C14_Witness ==
    /\ EqualLengthPair
    /\ Len(Split(probe.q1.s)) # Len(Split(probe.q2.s))
    /\ probe.ctx # <<>>
    /\ probe.out1 # probe.out2

\* C37: for the same query and the same filtered context the complete answer
\* of the streaming mock path, the string it records into the history, is the
\* answer the batch mock path returns: both take the template and the addition
\* at index len(query) mod 4.
C37_StreamingMockIsBatchMock ==
    (probe.fn = "mock" /\ probe.done) =>
        /\ probe.full1 = probe.out1
        /\ probe.full1 = TemplateAnswer((PyLen(probe.q1.s) % 4) + 1, probe.q1, probe.ctx)

\* both paths answered a query of several words with a context, from a
\* template other than the first
C37_Witness ==
    /\ probe.fn = "mock" /\ probe.done
    /\ probe.ctx # <<>>
    /\ Len(Split(probe.q1.s)) > 1
    /\ PyLen(probe.q1.s) % 4 = 3
    /\ probe.full1 # <<>>
    /\ probe.full1 = probe.out1

(***************************************************************************)
(* DocumentChunker.chunk_text                                              *)
(***************************************************************************)
DefaultChunkSize == 1000
DefaultChunkOverlap == 200
SentenceWindow == 200

Max(a, b) == IF a > b THEN a ELSE b

\* an index of a slice of a sequence of n items: negative counts from the
\* end, and both ends are clamped
PyClamp(i, n) == IF i < 0 THEN Max(n + i, 0) ELSE Min(i, n)

\* s[a:b]
PySlice(s, a, b) ==
    LET lo == PyClamp(a, Len(s))
        hi == PyClamp(b, Len(s))
    IN  IF lo >= hi THEN <<>> ELSE SubSeq(s, lo + 1, hi)

\* s.rfind(ch, a, b): the highest index of ch in s[a:b], or -1
RFind(s, ch, a, b) ==
    LET lo == PyClamp(a, Len(s))
        hi == PyClamp(b, Len(s))
        at == {i \in lo..(hi - 1) : s[i + 1] = ch}
    IN  IF at = {} THEN -1 ELSE CHOOSE i \in at : \A j \in at : j <= i

\* the end of the chunk that starts at start: start + chunk_size, or one past
\* the last '.' of the window before it
ChunkEnd(text, start, chunk_size) ==
    LET end == start + chunk_size
        search_start == Max(start, end - SentenceWindow)
        sentence_end == RFind(text, ".", search_start, end)
    IN  IF end < Len(text) /\ sentence_end > start THEN sentence_end + 1 ELSE end

\* the cursor moves to the end of the chunk
NextStartNoOverlap(end, chunk_overlap) == end

\* start = end - self.chunk_overlap
NextStart(end, chunk_overlap) == end - chunk_overlap

\* chunk_id is counted up on every round of the loop
NextChunkIdEveryRound(chunk_id, chunk_text) == chunk_id + 1

\* chunk_id += 1, inside `if chunk_text:`
NextChunkId(chunk_id, chunk_text) ==
    IF chunk_text # <<>> THEN chunk_id + 1 ELSE chunk_id

\* chunk_data
ChunkData(chunk_text, start, end, chunk_id) ==
    [text |-> chunk_text, start_pos |-> start, end_pos |-> end, chunk_id |-> chunk_id,
     metadata |-> [chunk_size |-> Len(chunk_text), source |-> "text_input",
                   total_chunks |-> 0]]

\* chunk['metadata']['total_chunks'] = len(chunks), for every chunk
WithTotals(chunks) ==
    [i \in 1..Len(chunks) |-> [chunks[i] EXCEPT !.metadata.total_chunks = Len(chunks)]]

\* a text of n characters, all "a" but for a "." at the indices of dots
LongText(n, dots) == [i \in 1..n |-> IF (i - 1) \in dots THEN "." ELSE "a"]

ChunkChars == {"a", ".", " "}

\* the chunkers constructed and the texts given to them: every small
\* configuration with every short text, the default configuration with
\* texts around its chunk size, and a configuration whose overlap exceeds
\* the length of a first sentence
ChunkInputs ==
    {[chunk_size |-> n, chunk_overlap |-> o, text |-> t] :
        n \in 1..MaxChunkSize, o \in 0..MaxChunkSize,
        t \in SeqsUpTo(ChunkChars, MaxTextLen)}
    \cup
    {[chunk_size |-> DefaultChunkSize, chunk_overlap |-> DefaultChunkOverlap, text |-> t] :
        t \in {LongText(500, {}), LongText(900, {}), LongText(1500, {950}),
               LongText(1500, {100})}}
    \cup
    {[chunk_size |-> 7, chunk_overlap |-> 3, text |-> t] :
        t \in {LongText(8, {}), LongText(8, {1}), LongText(8, {0, 1, 7})}}

\* the chunker is constructed and chunk_text is about to be called; skipped
\* and gaps observe the loop: whether a blank slice was passed over since
\* the last chunk, and for each chunk whether one was passed over before it
InitChunk ==
    /\ InitCommon
    /\ openai_client = "none"
    /\ probe \in {[fn |-> "chunk", chunk_size |-> i.chunk_size,
                    chunk_overlap |-> i.chunk_overlap, text |-> i.text,
                    pc |-> "call", start |-> 0, chunks |-> <<>>, chunk_id |-> 0,
                    skipped |-> FALSE, gaps |-> <<>>] : i \in ChunkInputs}
    /\ budget = [msgs |-> 0, pfails |-> 0, tfails |-> 0, batch |-> 0]

\* chunk_text is called: blank text returns [], otherwise the loop is entered
ChunkTextCall ==
    /\ probe.fn = "chunk"
    /\ probe.pc = "call"
    /\ probe' = IF Strip(probe.text) = <<>>
                THEN [probe EXCEPT !.pc = "returned"]
                ELSE [probe EXCEPT !.pc = "loop"]
    /\ UNCHANGED <<conversation_history, openai_client, active_connections, conn, log,
                   broken, clock, batch, budget, appended, ghost>>

\* one round of the while loop; the round that leaves the loop also sets
\* total_chunks and returns
ChunkTextIterate ==
    LET text == probe.text
        start == probe.start
        end == ChunkEnd(text, start, probe.chunk_size)
        chunk_text == Strip(PySlice(text, start, end))
        chunks == IF chunk_text # <<>>
                  THEN Append(probe.chunks,
                              ChunkData(chunk_text, start, end, probe.chunk_id))
                  ELSE probe.chunks
        next == NextStart(end, probe.chunk_overlap)
    IN  /\ probe.fn = "chunk"
        /\ probe.pc = "loop"
        /\ Len(probe.chunks) < MaxEmitted
        /\ probe' = [probe EXCEPT
               !.start = next,
               !.chunk_id = NextChunkId(@, chunk_text),
               !.chunks = IF next >= Len(text) THEN WithTotals(chunks) ELSE chunks,
               !.pc = IF next >= Len(text) THEN "returned" ELSE "loop",
               !.skipped = (chunk_text = <<>>),
               !.gaps = IF chunk_text # <<>> THEN Append(@, probe.skipped) ELSE @]
        /\ UNCHANGED <<conversation_history, openai_client, active_connections, conn,
                       log, broken, clock, batch, budget, appended, ghost>>

NextChunk == ChunkTextCall \/ ChunkTextIterate

SpecChunk == InitChunk /\ [][NextChunk]_vars

\* the configuration the spec accepts
ValidChunkConfig ==
    probe.fn = "chunk" /\ 0 <= probe.chunk_overlap /\ probe.chunk_overlap < probe.chunk_size

\* C16: a chunker with chunk_overlap >= chunk_size is rejected with a
\* configuration error at construction or at the call of chunk_text: it
\* neither enters the chunking loop nor returns chunks
C16_BadOverlapRejected ==
    (probe.fn = "chunk" /\ probe.chunk_overlap >= probe.chunk_size) =>
        probe.pc \in {"call", "config_error"}

\* C17: with 0 <= chunk_overlap < chunk_size every round of the loop moves
\* start strictly forward, whether or not a sentence end moved end backward
C17_StartStrictlyIncreases ==
    [][(ValidChunkConfig /\ probe.pc = "loop" /\ probe' # probe) =>
           probe'.start > probe.start]_vars

\* C18: with 0 <= chunk_overlap < chunk_size every chunk of chunk_text has
\* 0 <= start_pos < end_pos <= len(text)
C18_ChunkSpansInsideText ==
    ValidChunkConfig =>
        \A i \in 1..Len(probe.chunks) :
            /\ 0 <= probe.chunks[i].start_pos
            /\ probe.chunks[i].start_pos < probe.chunks[i].end_pos
            /\ probe.chunks[i].end_pos <= Len(probe.text)

\* C19: with the default chunk_size 1000 and overlap 200, a non-blank text
\* shorter than chunk_size comes back as exactly one chunk, the trimmed text
C19_ShortTextIsOneChunk ==
    (/\ probe.fn = "chunk"
     /\ probe.chunk_size = DefaultChunkSize
     /\ probe.chunk_overlap = DefaultChunkOverlap
     /\ Len(probe.text) < probe.chunk_size
     /\ Strip(probe.text) # <<>>
     /\ probe.pc = "returned") =>
        /\ Len(probe.chunks) = 1
        /\ probe.chunks[1].text = Strip(probe.text)

\* C20 as stated: of two consecutive chunks the later starts at the earlier
\* one's end_pos minus chunk_overlap
C20_ConsecutiveChunksOverlap ==
    probe.fn = "chunk" =>
        \A i \in 1..(Len(probe.chunks) - 1) :
            probe.chunks[i + 1].start_pos = probe.chunks[i].end_pos - probe.chunk_overlap

\* C20 as amended: of two consecutive chunks with no blank slice passed over
\* between them, the later starts at the earlier one's end_pos minus
\* chunk_overlap
C20_AdjacentChunksOverlap ==
    probe.fn = "chunk" =>
        \A i \in 1..(Len(probe.chunks) - 1) :
            ~probe.gaps[i + 1] =>
                probe.chunks[i + 1].start_pos =
                    probe.chunks[i].end_pos - probe.chunk_overlap

\* chunk_text returned three or more chunks with an overlap, and a blank
\* slice was passed over before the third one
C20_Witness ==
    /\ ValidChunkConfig
    /\ probe.pc = "returned"
    /\ probe.chunk_overlap > 0
    /\ Len(probe.chunks) >= 3
    /\ SubSeq(probe.gaps, 1, 3) = <<FALSE, FALSE, TRUE>>
    /\ probe.chunks[2].start_pos = probe.chunks[1].end_pos - probe.chunk_overlap
    /\ probe.chunks[3].start_pos # probe.chunks[2].end_pos - probe.chunk_overlap

\* the characters of text at the positions of [a, b)
SpanText(text, a, b) ==
    IF Max(a, 0) >= Min(b, Len(text)) THEN <<>>
    ELSE SubSeq(text, Max(a, 0) + 1, Min(b, Len(text)))

\* C21: the chunks chunk_text returns cover the text: every position that
\* holds a non-whitespace character lies in the span of a chunk whose text
\* is that span, trimmed
C21_ChunksCoverText ==
    (ValidChunkConfig /\ probe.pc = "returned") =>
        \A p \in 1..Len(probe.text) :
            ~IsWs(probe.text[p]) =>
                \E i \in 1..Len(probe.chunks) :
                    /\ probe.chunks[i].start_pos <= p - 1
                    /\ p - 1 < probe.chunks[i].end_pos
                    /\ probe.chunks[i].text =
                           Strip(SpanText(probe.text, probe.chunks[i].start_pos,
                                          probe.chunks[i].end_pos))

\* C22: in the list chunk_text returns the chunk at index i has chunk_id i,
\* also after blank slices were passed over, and total_chunks of every
\* chunk is the length of the list
C22_ChunkIdsAndTotals ==
    (probe.fn = "chunk" /\ probe.pc = "returned") =>
        \A i \in 1..Len(probe.chunks) :
            /\ probe.chunks[i].chunk_id = i - 1
            /\ probe.chunks[i].metadata.total_chunks = Len(probe.chunks)

C22_Witness ==
    /\ probe.fn = "chunk"
    /\ probe.pc = "returned"
    /\ Len(probe.chunks) >= 3
    /\ probe.gaps[2]
    /\ probe.chunks[3].chunk_id = 2
    /\ probe.chunks[1].metadata.total_chunks = Len(probe.chunks)

(***************************************************************************)
(* DocumentChunker.chunk_file                                              *)
(***************************************************************************)
\* "[PDF content placeholder for x.pdf]"
PdfPlaceholder ==
    <<"[", "P", "D", "F", " ", "c", "o", "n", "t", "e", "n", "t", " ", "p",
      "l", "a", "c", "e", "h", "o", "l", "d", "e", "r", " ", "f", "o", "r",
      " ", "x", ".", "p", "d", "f", "]">>

\* "[Error extracting PDF x.pdf: EOF]"
PdfErrorText ==
    <<"[", "E", "r", "r", "o", "r", " ", "e", "x", "t", "r", "a", "c", "t",
      "i", "n", "g", " ", "P", "D", "F", " ", "x", ".", "p", "d", "f", ":",
      " ", "E", "O", "F", "]">>

\* "[Word document content placeholder for y.docx]"
WordPlaceholder ==
    <<"[", "W", "o", "r", "d", " ", "d", "o", "c", "u", "m", "e", "n", "t",
      " ", "c", "o", "n", "t", "e", "n", "t", " ", "p", "l", "a", "c", "e",
      "h", "o", "l", "d", "e", "r", " ", "f", "o", "r", " ", "y", ".", "d",
      "o", "c", "x", "]">>

\* "[Error extracting Word document y.docx: bad]"
WordErrorText ==
    <<"[", "E", "r", "r", "o", "r", " ", "e", "x", "t", "r", "a", "c", "t",
      "i", "n", "g", " ", "W", "o", "r", "d", " ", "d", "o", "c", "u", "m",
      "e", "n", "t", " ", "y", ".", "d", "o", "c", "x", ":", " ", "b", "a",
      "d", "]">>

\* the texts the extraction libraries give
Extractable(suffix) ==
    {LongText(30, {12}) \o <<" ", " ">>, LongText(14, {}), <<" ", " ">>}
        \cup (IF suffix = ".pdf" THEN {PdfPlaceholder} ELSE {})

\* the files given to chunk_file; outcome is how the extraction library
\* behaves: it gives content, cannot be imported, or raises
ChunkFiles ==
    {[name |-> "x.pdf", suffix |-> ".pdf", exists |-> TRUE, outcome |-> o, content |-> t] :
        o \in {"text", "import_error", "error"}, t \in Extractable(".pdf")}
    \cup
    {[name |-> "y.docx", suffix |-> ".docx", exists |-> TRUE, outcome |-> o, content |-> t] :
        o \in {"text", "import_error", "error"}, t \in Extractable(".docx")}
    \cup
    {[name |-> "n.txt", suffix |-> ".txt", exists |-> TRUE, outcome |-> "text", content |-> t] :
        t \in Extractable(".txt")}
    \cup
    {[name |-> "p.png", suffix |-> ".png", exists |-> TRUE, outcome |-> "text",
      content |-> <<>>],
     [name |-> "gone.txt", suffix |-> ".txt", exists |-> FALSE, outcome |-> "text",
      content |-> <<>>]}

FileChunkers == {[chunk_size |-> DefaultChunkSize, chunk_overlap |-> DefaultChunkOverlap],
                 [chunk_size |-> 16, chunk_overlap |-> 4],
                 [chunk_size |-> 20, chunk_overlap |-> 5]}

SupportedFormats == {".txt", ".md", ".pdf", ".docx", ".doc"}

\* DocumentChunker._extract_pdf_file
ExtractPdfFile(file) ==
    CASE file.outcome = "text" -> Strip(file.content)
      [] file.outcome = "import_error" -> PdfPlaceholder
      [] file.outcome = "error" -> PdfErrorText

\* DocumentChunker._extract_word_file
ExtractWordFile(file) ==
    CASE file.outcome = "text" -> Strip(file.content)
      [] file.outcome = "import_error" -> WordPlaceholder
      [] file.outcome = "error" -> WordErrorText

\* DocumentChunker._extract_text_from_file
ExtractTextFromFile(file) ==
    CASE file.suffix \in {".txt", ".md"} -> file.content
      [] file.suffix = ".pdf" -> ExtractPdfFile(file)
      [] file.suffix \in {".docx", ".doc"} -> ExtractWordFile(file)

\* the metadata of a chunk after chunk_text(text, source=str(file_path)) and
\* chunk['metadata'].update(...)
FileMetadata(chunk, file) ==
    [chunk_size |-> chunk.metadata.chunk_size,
     source |-> file.name,
     total_chunks |-> chunk.metadata.total_chunks,
     filename |-> file.name,
     file_path |-> file.name,
     file_type |-> file.suffix,
     file_size |-> Len(file.content)]

InitChunkFile ==
    /\ InitCommon
    /\ openai_client = "none"
    /\ probe \in {[fn |-> "chunk", chunk_size |-> c.chunk_size,
                    chunk_overlap |-> c.chunk_overlap, text |-> <<>>,
                    pc |-> "file", start |-> 0, chunks |-> <<>>, chunk_id |-> 0,
                    skipped |-> FALSE, gaps |-> <<>>, file |-> f] :
                        c \in FileChunkers, f \in ChunkFiles}
    /\ budget = [msgs |-> 0, pfails |-> 0, tfails |-> 0, batch |-> 0]

\* chunk_file up to its call of chunk_text: the checks of the path, the
\* extraction, and the return of [] for a blank text
ChunkFileCall ==
    /\ probe.fn = "chunk"
    /\ probe.pc = "file"
    /\ probe' =
         IF ~probe.file.exists \/ probe.file.suffix \notin SupportedFormats
         THEN [probe EXCEPT !.pc = "file_raised"]
         ELSE LET text == ExtractTextFromFile(probe.file) IN
              IF Strip(text) = <<>>
              THEN [probe EXCEPT !.pc = "file_returned", !.text = text]
              ELSE [probe EXCEPT !.pc = "call", !.text = text]
    /\ UNCHANGED <<conversation_history, openai_client, active_connections, conn, log,
                   broken, clock, batch, budget, appended, ghost>>

\* chunk_text has returned: the file metadata is put on every chunk and the
\* chunks are returned
ChunkFileReturn ==
    /\ probe.fn = "chunk"
    /\ "file" \in DOMAIN probe
    /\ probe.pc = "returned"
    /\ probe' = [probe EXCEPT
           !.pc = "file_returned",
           !.chunks = [i \in 1..Len(probe.chunks) |->
                          [text |-> probe.chunks[i].text,
                           start_pos |-> probe.chunks[i].start_pos,
                           end_pos |-> probe.chunks[i].end_pos,
                           chunk_id |-> probe.chunks[i].chunk_id,
                           metadata |-> FileMetadata(probe.chunks[i], probe.file)]]]
    /\ UNCHANGED <<conversation_history, openai_client, active_connections, conn, log,
                   broken, clock, batch, budget, appended, ghost>>

NextChunkFile == ChunkFileCall \/ ChunkTextCall \/ ChunkTextIterate \/ ChunkFileReturn

SpecChunkFile == InitChunkFile /\ [][NextChunkFile]_vars

\* the extraction of the file failed and a placeholder stands for its text
Degraded(file) ==
    file.suffix \in {".pdf", ".docx", ".doc"} /\ file.outcome \in {"import_error", "error"}

\* the metadata chunk_file puts on a chunk of successfully extracted text
PlainMetadata(chunk, file) ==
    [chunk_size |-> Len(chunk.text), source |-> file.name,
     total_chunks |-> Len(probe.chunks), filename |-> file.name,
     file_path |-> file.name, file_type |-> file.suffix,
     file_size |-> Len(file.content)]

\* C33: when the extraction of a PDF or Word file fails and a placeholder is
\* chunked in place of its text, every chunk chunk_file returns carries in its
\* metadata a marker that a chunk of successfully extracted text does not
\* carry.
C33_PlaceholderChunksAreMarked ==
    (probe.fn = "chunk" /\ probe.pc = "file_returned" /\ Degraded(probe.file)) =>
        \A i \in 1..Len(probe.chunks) :
            probe.chunks[i].metadata # PlainMetadata(probe.chunks[i], probe.file)

(***************************************************************************)
(* VectorDatabase over its ChromaDB collection, and the endpoints on it    *)
(*                                                                         *)
(* The methods are coroutines without an await inside: on the one event    *)
(* loop of the server each call runs from its first statement to its       *)
(* return before another request is served, so each is one action.  The    *)
(* collection is the index: add, get, delete, query and count are single   *)
(* calls that either take effect or raise.                                 *)
(***************************************************************************)
\* d.get(key, default)
PyGet(d, key, default) == IF key \in DOMAIN d THEN d[key] ELSE default

StoreFiles == {"ml.txt", "nn.txt"}

\* chunks as chunk_file hands them over, a blank one and one without text
StoreChunkA == ChunkData(<<"a", ".", "b">>, 0, 3, 0)
StoreChunkB == ChunkData(<<"c">>, 2, 5, 1)
StoreChunkBlank == ChunkData(<<" ", " ">>, 5, 7, 2)
StoreChunkNoText == [chunk_id |-> 3]

StoreChunkLists ==
    { <<>>,
      <<StoreChunkBlank, StoreChunkNoText>>,
      <<StoreChunkB>>,
      <<StoreChunkA, StoreChunkBlank, StoreChunkB>> }

\* n_results of the callers: 3 (test endpoint) and the default 5
SearchSizes == {1, 3, NResults}

\* the distance of a stored text from the query, as the embedding gives it
DistanceOf(text) == IF Len(text) > 1 THEN 90 ELSE 20

\* the metadata add_documents stores with a chunk
StoredMetadata(chunk, text, filename) ==
    [filename |-> filename,
     chunk_id |-> PyGet(chunk, "chunk_id", 0),
     chunk_size |-> Len(text),
     start_pos |-> PyGet(chunk, "start_pos", 0),
     end_pos |-> PyGet(chunk, "end_pos", 0),
     file_type |-> PyGet(PyGet(chunk, "metadata", [source |-> "upload"]),
                         "file_type", "unknown"),
     source |-> PyGet(PyGet(chunk, "metadata", [source |-> "upload"]),
                      "source", "upload")]

\* documents, metadatas and ids as the loop of add_documents builds them;
\* uuid4 is drawn for every chunk, also for one that is skipped: the k-th
\* chunk of the call gets the id first + k
RECURSIVE Prepared(_, _, _)
Prepared(chunks, filename, first) ==
    IF chunks = <<>> THEN <<>>
    ELSE LET text == PyGet(Head(chunks), "text", <<>>)
             rest == Prepared(Tail(chunks), filename, first + 1)
         IN  IF Strip(text) = <<>> THEN rest
             ELSE <<[id |-> first + 1, document |-> text,
                     metadata |-> StoredMetadata(Head(chunks), text, filename)]>>
                      \o rest

\* collection.get(where={"filename": filename})
GetWhere(collection, filename) ==
    SelectSeq(collection, LAMBDA it : it.metadata.filename = filename)

\* collection.delete(ids=ids)
DeleteIds(collection, ids) == SelectSeq(collection, LAMBDA it : it.id \notin ids)

Ids(items) == {items[i].id : i \in 1..Len(items)}

\* the items in ascending distance, ties in stored order
RECURSIVE InsertByDistance(_, _)
InsertByDistance(sorted, it) ==
    IF sorted = <<>> THEN <<it>>
    ELSE IF DistanceOf(it.document) < DistanceOf(Head(sorted).document)
         THEN <<it>> \o sorted
         ELSE <<Head(sorted)>> \o InsertByDistance(Tail(sorted), it)

RECURSIVE SortByDistance(_)
SortByDistance(items) ==
    IF items = <<>> THEN <<>>
    ELSE InsertByDistance(SortByDistance(SubSeq(items, 1, Len(items) - 1)),
                          items[Len(items)])

\* collection.query(query_texts=[query], n_results=n_results): the nearest
\* n_results items, all of them when fewer are stored
QueryIndex(collection, n_results) ==
    SubSeq(SortByDistance(collection), 1, Min(n_results, Len(collection)))

\* similar_chunks
FormatResults(items) ==
    [i \in 1..Len(items) |->
        [text |-> items[i].document, metadata |-> items[i].metadata,
         distance |-> DistanceOf(items[i].document), id |-> items[i].id]]

\* the documents dict of list_documents after the metadatas in metas: the
\* entries in order of first appearance
RECURSIVE Aggregate(_, _)
Aggregate(documents, metas) ==
    IF metas = <<>> THEN documents
    ELSE LET metadata == Head(metas)
             filename == metadata.filename
             at == {i \in 1..Len(documents) : documents[i].filename = filename}
         IN  IF at = {}
             THEN Aggregate(Append(documents,
                                   [filename |-> filename,
                                    file_type |-> metadata.file_type,
                                    chunk_count |-> 1,
                                    total_size |-> metadata.chunk_size]),
                            Tail(metas))
             ELSE LET i == CHOOSE j \in at : TRUE
                  IN  Aggregate([documents EXCEPT
                                    ![i].chunk_count = @ + 1,
                                    ![i].total_size = @ + metadata.chunk_size],
                                Tail(metas))

Metadatas(items) == [i \in 1..Len(items) |-> items[i].metadata]

\* the except clause of a store method lets the failure of the index go
StoreExceptReraise(op) == [raised |-> TRUE]

\* the except clauses of the store methods: what each returns
StoreExcept(op) ==
    [raised |-> FALSE,
     value |-> CASE op \in {"add_documents", "delete_document"} -> FALSE
                 [] op \in {"search_similar", "list_documents"} -> <<>>
                 [] op = "health_check" ->
                        Cat(<<"unhealthy:", " ">>, ExcText("IndexError"))]

Returned(v) == [raised |-> FALSE, value |-> v]

\* delete_document deletes the first matching chunk only
DeleteDocumentFirstOnly(collection, filename, fail) ==
    LET results == GetWhere(collection, filename) IN
    IF fail = "get" THEN [collection |-> collection, out |-> StoreExcept("delete_document")]
    ELSE IF results # <<>>
    THEN IF fail = "delete"
         THEN [collection |-> collection, out |-> StoreExcept("delete_document")]
         ELSE [collection |-> DeleteIds(collection, {results[1].id}),
               out |-> Returned(TRUE)]
    ELSE [collection |-> collection, out |-> Returned(FALSE)]

\* VectorDatabase.delete_document; fail: the index call that raises
DeleteDocument(collection, filename, fail) ==
    LET results == GetWhere(collection, filename) IN
    IF fail = "get" THEN [collection |-> collection, out |-> StoreExcept("delete_document")]
    ELSE IF results # <<>>
    THEN IF fail = "delete"
         THEN [collection |-> collection, out |-> StoreExcept("delete_document")]
         ELSE [collection |-> DeleteIds(collection, Ids(results)),
               out |-> Returned(TRUE)]
    ELSE [collection |-> collection, out |-> Returned(FALSE)]

\* add_documents stores the chunks unfiltered
AddDocumentsUnfiltered(collection, chunks, filename, first, fail) ==
    LET items == [i \in 1..Len(chunks) |->
                     [id |-> first + i, document |-> PyGet(chunks[i], "text", <<>>),
                      metadata |-> StoredMetadata(chunks[i],
                                        PyGet(chunks[i], "text", <<>>), filename)]]
    IN  IF items = <<>> THEN [collection |-> collection, out |-> Returned(FALSE)]
        ELSE IF fail = "add"
        THEN [collection |-> collection, out |-> StoreExcept("add_documents")]
        ELSE [collection |-> collection \o items, out |-> Returned(TRUE)]

\* VectorDatabase.add_documents
AddDocuments(collection, chunks, filename, first, fail) ==
    LET items == Prepared(chunks, filename, first) IN
    IF items = <<>> THEN [collection |-> collection, out |-> Returned(FALSE)]
    ELSE IF fail = "add"
    THEN [collection |-> collection, out |-> StoreExcept("add_documents")]
    ELSE [collection |-> collection \o items, out |-> Returned(TRUE)]

\* the formatting loop of search_similar keeps the nearest result only
SearchSimilarFirstOnly(collection, n_results, fail) ==
    IF fail = "query" THEN StoreExcept("search_similar")
    ELSE Returned(FormatResults(SubSeq(QueryIndex(collection, n_results), 1,
                                       Min(1, Len(collection)))))

\* VectorDatabase.search_similar
SearchSimilar(collection, n_results, fail) ==
    IF fail = "query" THEN StoreExcept("search_similar")
    ELSE Returned(FormatResults(QueryIndex(collection, n_results)))

\* list_documents counts the files, not their chunks
ListDocumentsNoCount(collection, fail) ==
    IF fail = "get" THEN StoreExcept("list_documents")
    ELSE Returned([i \in 1..Len(Aggregate(<<>>, Metadatas(collection))) |->
                      [Aggregate(<<>>, Metadatas(collection))[i] EXCEPT
                          !.chunk_count = 1]])

\* VectorDatabase.list_documents
ListDocuments(collection, fail) ==
    IF fail = "get" THEN StoreExcept("list_documents")
    ELSE Returned(Aggregate(<<>>, Metadatas(collection)))

\* VectorDatabase.health_check
HealthCheck(collection, fail) ==
    IF fail = "count" THEN StoreExcept("health_check")
    ELSE Returned(CatAll(<<Lit(<<"healthy", "(documents:">>), <<" ">>,
                           StrNat(Len(collection)), <<")">>>>))

\* main.delete_document, the DELETE /api/documents/{document_id} endpoint
DeleteEndpoint(collection, document_id, fail) ==
    LET d == DeleteDocument(collection, document_id, fail) IN
    [collection |-> d.collection,
     out |-> IF d.out.raised
             THEN Returned([status |-> 500,
                            message |-> Lit(<<"Error", "deleting", "document:",
                                              "IndexError">>)])
             ELSE Returned([status |-> 200,
                            message |-> Lit(<<"Document", document_id, "deleted",
                                              "successfully">>)])]

\* what the persist directory holds when the store is constructed: nothing,
\* or the chunks of two files added in an earlier run
PersistedChunks == <<StoreChunkA, StoreChunkBlank, StoreChunkB>>

PersistedStores ==
    {<<>>,
     Prepared(PersistedChunks, "ml.txt", 0)
         \o Prepared(<<StoreChunkB>>, "nn.txt", Len(PersistedChunks))}

\* the store after construction on its persist directory; calls holds the
\* calls made so far with their arguments, outcome and the collection before
\* and after
InitStore ==
    /\ InitCommon
    /\ openai_client = "none"
    /\ \E stored \in PersistedStores :
         probe = [fn |-> "store", collection |-> stored,
                  next_id |-> IF stored = <<>> THEN 0 ELSE Len(PersistedChunks) + 1,
                  calls |-> <<>>, fails |-> MaxIndexFail]
    /\ budget = [msgs |-> 0, pfails |-> 0, tfails |-> 0, batch |-> 0]

\* the index call named by fail raises in this call, if failures are left
MayFail(fail) == fail = "none" \/ probe.fails > 0

StoreStep(op, args, fail, collection, out, ids) ==
    /\ probe.fn = "store"
    /\ Len(probe.calls) < MaxStoreOps
    /\ MayFail(fail)
    /\ probe' = [probe EXCEPT
           !.collection = collection,
           !.next_id = @ + ids,
           !.fails = IF fail = "none" THEN @ ELSE @ - 1,
           !.calls = Append(@, [op |-> op, args |-> args, fail |-> fail, out |-> out,
                                before |-> probe.collection, after |-> collection])]
    /\ UNCHANGED <<conversation_history, openai_client, active_connections, conn, log,
                   broken, clock, batch, budget, appended, ghost>>

CallAddDocuments(chunks, filename, fail) ==
    LET r == AddDocuments(probe.collection, chunks, filename, probe.next_id, fail) IN
    StoreStep("add_documents", [chunks |-> chunks, filename |-> filename], fail,
              r.collection, r.out, Len(chunks))

CallSearchSimilar(n_results, fail) ==
    StoreStep("search_similar", [n_results |-> n_results], fail, probe.collection,
              SearchSimilar(probe.collection, n_results, fail), 0)

CallListDocuments(fail) ==
    StoreStep("list_documents", [none |-> TRUE], fail, probe.collection,
              ListDocuments(probe.collection, fail), 0)

\* delete_document works on the collection as it was before the call that
\* ran last, and puts back what is left of that
CallDeleteDocumentOnStale(filename, fail) ==
    LET stale == IF probe.calls = <<>> THEN probe.collection
                 ELSE probe.calls[Len(probe.calls)].before
        r == DeleteDocument(stale, filename, fail)
    IN  StoreStep("delete_document", [filename |-> filename], fail, r.collection,
                  r.out, 0)

\* a request that deletes: the coroutine runs to its return on the event loop
CallDeleteDocument(filename, fail) ==
    LET r == DeleteDocument(probe.collection, filename, fail) IN
    StoreStep("delete_document", [filename |-> filename], fail, r.collection, r.out, 0)

CallHealthCheck(fail) ==
    StoreStep("health_check", [none |-> TRUE], fail, probe.collection,
              HealthCheck(probe.collection, fail), 0)

CallDeleteEndpoint(document_id, fail) ==
    LET r == DeleteEndpoint(probe.collection, document_id, fail) IN
    StoreStep("delete_endpoint", [filename |-> document_id], fail, r.collection,
              r.out, 0)

NextStore ==
    \/ \E chunks \in StoreChunkLists, f \in StoreFiles, fail \in {"none", "add"} :
           CallAddDocuments(chunks, f, fail)
    \/ \E n \in SearchSizes, fail \in {"none", "query"} : CallSearchSimilar(n, fail)
    \/ \E fail \in {"none", "get"} : CallListDocuments(fail)
    \/ \E f \in StoreFiles, fail \in {"none", "get", "delete"} :
           CallDeleteDocument(f, fail)
    \/ \E fail \in {"none", "count"} : CallHealthCheck(fail)
    \/ \E f \in StoreFiles, fail \in {"none", "get", "delete"} :
           CallDeleteEndpoint(f, fail)

SpecStore == InitStore /\ [][NextStore]_vars

\* VectorDatabase.reset_database.  The collection the store works on is
\* named "test"; has_other says whether the persist directory also holds a
\* collection named "ai_tutor_documents", the one that is deleted, and
\* delete_collection raises when there is none.  _initialize_collection then
\* gets the collection "test" as it is; it raises only when get_collection
\* and get_or_create_collection both do.
ResetDatabase(collection, has_other, fail) ==
    IF fail = "delete_collection" \/ ~has_other
    THEN [collection |-> collection, has_other |-> has_other,
          out |-> [raised |-> FALSE, value |-> FALSE]]
    ELSE IF fail = "get_or_create_collection"
    THEN [collection |-> collection, has_other |-> FALSE,
          out |-> [raised |-> FALSE, value |-> FALSE]]
    ELSE [collection |-> collection, has_other |-> FALSE,
          out |-> [raised |-> FALSE, value |-> TRUE]]

\* the store after construction on a persist directory that holds the
\* collection "ai_tutor_documents" or does not
InitReset ==
    /\ InitCommon
    /\ openai_client = "none"
    /\ \E stored \in PersistedStores, has_other \in BOOLEAN :
         probe = [fn |-> "store", collection |-> stored,
                  next_id |-> IF stored = <<>> THEN 0 ELSE Len(PersistedChunks) + 1,
                  calls |-> <<>>, fails |-> MaxIndexFail, has_other |-> has_other]
    /\ budget = [msgs |-> 0, pfails |-> 0, tfails |-> 0, batch |-> 0]

CallResetDatabase(fail) ==
    LET r == ResetDatabase(probe.collection, probe.has_other, fail) IN
    /\ probe.fn = "store"
    /\ Len(probe.calls) < MaxStoreOps
    /\ MayFail(fail)
    /\ probe' = [probe EXCEPT
           !.collection = r.collection,
           !.has_other = r.has_other,
           !.fails = IF fail = "none" THEN @ ELSE @ - 1,
           !.calls = Append(@, [op |-> "reset_database", args |-> [none |-> TRUE],
                                fail |-> fail, out |-> r.out,
                                before |-> probe.collection, after |-> r.collection])]
    /\ UNCHANGED <<conversation_history, openai_client, active_connections, conn, log,
                   broken, clock, batch, budget, appended, ghost>>

NextReset ==
    \/ NextStore
    \/ \E fail \in {"none", "delete_collection", "get_or_create_collection"} :
           CallResetDatabase(fail)

SpecReset == InitReset /\ [][NextReset]_vars

\* what chunk_file returns for the uploaded file: nothing for a file of
\* blank text, or its chunks
UploadChunkLists == {<<>>, <<StoreChunkB>>, <<StoreChunkA, StoreChunkB>>}

\* main.upload_file, the POST /api/upload endpoint.  fail: "chunk_file" when
\* chunking raises (say, a format that is not supported), "add" when the
\* index raises inside add_documents
UploadFile(collection, chunks, filename, first, fail) ==
    IF fail = "chunk_file"
    THEN [collection |-> collection,
          out |-> Returned([status_code |-> 500,
                            detail |-> Lit(<<"Upload", "failed:", "ValueError">>)])]
    ELSE LET r == AddDocuments(collection, chunks, filename, first, fail) IN
         [collection |-> r.collection,
          out |-> Returned([status_code |-> 200,
                            message |-> Lit(<<"Successfully", "processed", filename>>),
                            filename |-> filename,
                            chunks_created |-> Len(chunks),
                            status |-> "success"])]

\* a request that uploads: the endpoint runs to its return on the event loop
CallUploadFile(chunks, filename, fail) ==
    LET r == UploadFile(probe.collection, chunks, filename, probe.next_id, fail) IN
    StoreStep("upload_file", [chunks |-> chunks, filename |-> filename], fail,
              r.collection, r.out, Len(chunks))

NextUpload ==
    \/ NextStore
    \/ \E chunks \in UploadChunkLists, f \in StoreFiles,
          fail \in {"none", "add", "chunk_file"} :
           CallUploadFile(chunks, f, fail)

SpecUpload == InitStore /\ [][NextUpload]_vars

(***************************************************************************)
(* Properties of the store                                                 *)
(***************************************************************************)
Calls == IF probe.fn = "store" THEN probe.calls ELSE <<>>

CallsOf(op) == {j \in 1..Len(Calls) : Calls[j].op = op}

\* the chunks whose text has a character that is not whitespace
HasText(chunk) ==
    /\ "text" \in DOMAIN chunk
    /\ \E i \in 1..Len(chunk.text) : chunk.text[i] # " "

\* the items of c.after behind those of c.before
AddedBy(c) == SubSeq(c.after, Len(c.before) + 1, Len(c.after))

\* the ids the index has held up to the call j
IdsBefore(j) ==
    UNION {Ids(Calls[k].before) \cup Ids(Calls[k].after) : k \in 1..(j - 1)}
        \cup Ids(Calls[j].before)

\* C23: add_documents stores exactly the chunks whose text is not empty or
\* whitespace-only, in their order, each under an id the index never held and
\* that no other chunk of the call got, with the given filename in its
\* metadata, and leaves the chunks stored before as they were; when no chunk
\* survives it returns False and the collection is unchanged.
C23_AddStoresNonBlankChunks ==
    \A j \in CallsOf("add_documents") :
        LET c == Calls[j]
            kept == SelectSeq(c.args.chunks, HasText)
            added == AddedBy(c)
        IN  c.fail = "none" =>
              IF kept = <<>>
              THEN c.out = [raised |-> FALSE, value |-> FALSE] /\ c.after = c.before
              ELSE /\ c.out = [raised |-> FALSE, value |-> TRUE]
                   /\ Len(c.after) = Len(c.before) + Len(kept)
                   /\ SubSeq(c.after, 1, Len(c.before)) = c.before
                   /\ \A i \in 1..Len(kept) :
                        /\ added[i].document = kept[i].text
                        /\ added[i].metadata.filename = c.args.filename
                        /\ added[i].metadata.chunk_id = kept[i].chunk_id
                        /\ added[i].id \notin IdsBefore(j)
                        /\ \A k \in 1..Len(kept) : k # i => added[k].id # added[i].id

\* a list with a blank chunk between two others was added to a store that
\* holds chunks, and a list of blank chunks only was turned down
C23_Witness ==
    /\ \E j \in CallsOf("add_documents") :
         /\ Calls[j].fail = "none"
         /\ Calls[j].args.chunks = <<StoreChunkA, StoreChunkBlank, StoreChunkB>>
         /\ Calls[j].before # <<>>
         /\ Len(Calls[j].after) = Len(Calls[j].before) + 2
         /\ Calls[j].out.value = TRUE
    /\ \E j \in CallsOf("add_documents") :
         /\ Calls[j].fail = "none"
         /\ Calls[j].args.chunks = <<StoreChunkBlank, StoreChunkNoText>>
         /\ Calls[j].before # <<>>
         /\ Calls[j].out.value = FALSE

\* the string starts with the word unhealthy
StartsUnhealthy(s) == s # <<>> /\ s[1] = "unhealthy:"

\* C24: no store operation lets a failure of the index through to its caller:
\* when an index call raises, add_documents and delete_document return False,
\* search_similar and list_documents return the empty list, and health_check
\* returns a string that starts with unhealthy.
C24_IndexFailureIsContained ==
    \A j \in 1..Len(Calls) :
        LET c == Calls[j] IN
        c.op # "delete_endpoint" =>
          /\ ~c.out.raised
          /\ c.fail # "none" =>
               CASE c.op \in {"add_documents", "delete_document"} -> c.out.value = FALSE
                 [] c.op \in {"search_similar", "list_documents"} -> c.out.value = <<>>
                 [] c.op = "health_check" -> StartsUnhealthy(c.out.value)

\* the index raised in the delete call of delete_document, after the get had
\* found chunks, and again in a later health_check
C24_Witness ==
    \E j, k \in 1..Len(Calls) :
        /\ j < k
        /\ Calls[j].op = "delete_document" /\ Calls[j].fail = "delete"
        /\ Calls[j].before # <<>>
        /\ Calls[j].out = [raised |-> FALSE, value |-> FALSE]
        /\ Calls[k].op = "health_check" /\ Calls[k].fail = "count"
        /\ StartsUnhealthy(Calls[k].out.value)

FilenamesIn(stored) == {stored[i].metadata.filename : i \in 1..Len(stored)}

ChunksOfFile(stored, f) == SelectSeq(stored, LAMBDA it : it.metadata.filename = f)

RECURSIVE SumChunkSize(_)
SumChunkSize(items) ==
    IF items = <<>> THEN 0
    ELSE Head(items).metadata.chunk_size + SumChunkSize(Tail(items))

RECURSIVE SumChunkCount(_)
SumChunkCount(entries) ==
    IF entries = <<>> THEN 0
    ELSE Head(entries).chunk_count + SumChunkCount(Tail(entries))

\* the entries are the summary of the stored chunks by filename
Summarises(entries, stored) ==
    /\ {entries[i].filename : i \in 1..Len(entries)} = FilenamesIn(stored)
    /\ \A i, k \in 1..Len(entries) : i # k => entries[i].filename # entries[k].filename
    /\ \A i \in 1..Len(entries) :
         LET mine == ChunksOfFile(stored, entries[i].filename) IN
         /\ entries[i].chunk_count = Len(mine)
         /\ entries[i].total_size = SumChunkSize(mine)
    /\ SumChunkCount(entries) = Len(stored)

\* C26: after any sequence of add_documents and delete_document calls,
\* list_documents returns one entry for each filename among the stored chunks,
\* with chunk_count the number of stored chunks of that filename and
\* total_size the sum of their chunk_size; the chunk_counts add up to the
\* number of stored chunks.
C26_ListSummarisesStore ==
    \A j \in CallsOf("list_documents") :
        Calls[j].fail = "none" =>
            /\ ~Calls[j].out.raised
            /\ Summarises(Calls[j].out.value, Calls[j].before)

\* a document was deleted, and the store listed holds two files, one of them
\* with two chunks of different size
C26_Witness ==
    \E j \in CallsOf("list_documents") :
        /\ Calls[j].fail = "none"
        /\ FilenamesIn(Calls[j].before) = StoreFiles
        /\ \E k \in CallsOf("delete_document") : k < j /\ Calls[k].out.value = TRUE
        /\ \E i \in 1..Len(Calls[j].out.value) :
             /\ Calls[j].out.value[i].chunk_count = 2
             /\ Calls[j].out.value[i].total_size = 4

\* the stored chunks whose filename is not f
WithoutFile(stored, f) == SelectSeq(stored, LAMBDA it : it.metadata.filename # f)

\* C27: delete_document(f) removes every stored chunk whose filename is f and
\* no other chunk; it returns True when a chunk was removed and False when
\* none matched, and then, as for a document never added or deleted before,
\* it does not raise and the store is unchanged.
C27_DeleteRemovesTheDocument ==
    \A j \in CallsOf("delete_document") :
        LET c == Calls[j]
            f == c.args.filename
        IN  c.fail = "none" =>
              /\ ~c.out.raised
              /\ c.after = WithoutFile(c.before, f)
              /\ c.out.value = (ChunksOfFile(c.before, f) # <<>>)
              /\ c.out.value = FALSE => c.after = c.before
              /\ \A k \in CallsOf("delete_document") :
                    (k = j + 1 /\ Calls[k].args.filename = f /\ Calls[k].fail = "none")
                        => /\ Calls[k].out = [raised |-> FALSE, value |-> FALSE]
                           /\ Calls[k].after = Calls[k].before

\* a document of two chunks was deleted from a store that holds another
\* document too, and deleted a second time
C27_Witness ==
    \E j \in CallsOf("delete_document") :
        /\ Calls[j].fail = "none"
        /\ Len(ChunksOfFile(Calls[j].before, Calls[j].args.filename)) = 2
        /\ Calls[j].after # <<>>
        /\ Calls[j].out.value = TRUE
        /\ j + 1 \in CallsOf("delete_document")
        /\ Calls[j + 1].args = Calls[j].args
        /\ Calls[j + 1].fail = "none"
        /\ Calls[j + 1].out.value = FALSE

\* the answer of the endpoint says that the document was deleted
SaysDeleted(answer, f) ==
    /\ answer.status = 200
    /\ answer.message = Lit(<<"Document", f, "deleted", "successfully">>)

\* C28: the delete-by-identifier endpoint reports the outcome of the deletion:
\* it answers with success only when chunks of the document were removed, and
\* with a not-found result when the identifier matches no stored document.
C28_DeleteEndpointReportsOutcome ==
    \A j \in CallsOf("delete_endpoint") :
        LET c == Calls[j]
            f == c.args.filename
        IN  /\ (~c.out.raised /\ SaysDeleted(c.out.value, f))
                  => (ChunksOfFile(c.before, f) # <<>> /\ ChunksOfFile(c.after, f) = <<>>)
            /\ (c.fail = "none" /\ ChunksOfFile(c.before, f) = <<>>)
                  => (~c.out.raised /\ ~SaysDeleted(c.out.value, f))

\* the writer call c took effect as a whole or not at all
AllOrNothing(c) ==
    LET f == c.args.filename IN
    /\ WithoutFile(c.after, f) = WithoutFile(c.before, f)
    /\ IF c.op = "add_documents"
       THEN \/ c.after = c.before
            \/ /\ SubSeq(c.after, 1, Len(c.before)) = c.before
               /\ Len(AddedBy(c)) = Len(SelectSeq(c.args.chunks, HasText))
       ELSE \/ c.after = c.before
            \/ ChunksOfFile(c.after, f) = <<>>

\* C29: the writers are serialized.  Every call works on the collection as the
\* call before it left it, an add_documents and a delete_document each take
\* effect as a whole or not at all, so that after an add_documents(chunks, f)
\* and a delete_document(f) of concurrent requests, in whichever order they
\* ran, either all chunks of the add are stored or no chunk of f is, and the
\* chunks of other files are as before; list_documents reports the counts of
\* the chunks stored when it runs.
C29_WritersAreSerialized ==
    \A j \in 1..Len(Calls) :
        LET c == Calls[j] IN
        /\ j > 1 => c.before = Calls[j - 1].after
        /\ c.op \in {"add_documents", "delete_document"} => AllOrNothing(c)
        /\ (c.op = "list_documents" /\ c.fail = "none")
              => Summarises(c.out.value, c.before)
        /\ \A k \in 1..Len(Calls) :
              (/\ k = j + 1
               /\ {c.op, Calls[k].op} = {"add_documents", "delete_document"}
               /\ c.args.filename = Calls[k].args.filename
               /\ c.fail = "none" /\ Calls[k].fail = "none")
              => LET f == c.args.filename
                     final == Calls[k].after
                     add == IF c.op = "add_documents" THEN c ELSE Calls[k]
                 IN  /\ WithoutFile(final, f) = WithoutFile(c.before, f)
                     /\ \/ ChunksOfFile(final, f) = <<>>
                        \/ /\ ChunksOfFile(final, f) = AddedBy(add)
                           /\ Len(AddedBy(add))
                                 = Len(SelectSeq(add.args.chunks, HasText))

\* chunks were added to a file that had chunks, next to those of another
\* file; the delete of the file that ran after it left no chunk of the file
\* and all of the other, and the list that followed reports just that
C29_Witness ==
    /\ Len(Calls) = 3
    /\ Calls[1].op = "add_documents" /\ Calls[1].fail = "none"
    /\ Calls[1].args.filename = "ml.txt"
    /\ Len(AddedBy(Calls[1])) = 2
    /\ ChunksOfFile(Calls[1].before, "ml.txt") # <<>>
    /\ Calls[2].op = "delete_document" /\ Calls[2].fail = "none"
    /\ Calls[2].args.filename = "ml.txt"
    /\ ChunksOfFile(Calls[2].after, "ml.txt") = <<>>
    /\ ChunksOfFile(Calls[2].after, "nn.txt") # <<>>
    /\ Calls[3].op = "list_documents" /\ Calls[3].fail = "none"
    /\ Len(Calls[3].out.value) = 1
    /\ Calls[3].out.value[1].filename = "nn.txt"

\* C34: after reset_database has returned True all data is deleted: the
\* collection that add_documents, search_similar and list_documents work on
\* holds no chunks.
C34_ResetEmptiesTheStore ==
    \A j \in CallsOf("reset_database") :
        (~Calls[j].out.raised /\ Calls[j].out.value = TRUE) => Calls[j].after = <<>>

\* what add_documents returned inside the upload c
StoredByUpload(c) ==
    AddDocuments(c.before, c.args.chunks, c.args.filename, 0, c.fail).out.value

\* C39: an upload answers status 'success' with chunks_created = n only if
\* the call put n chunks of that file into the store, and it does not answer
\* 'success' when add_documents returned False.
C39_UploadSuccessMeansStored ==
    \A j \in CallsOf("upload_file") :
        LET c == Calls[j]
            answer == c.out.value
        IN  /\ (answer.status_code = 200 /\ answer.status = "success") =>
                  /\ Len(AddedBy(c)) = answer.chunks_created
                  /\ \A i \in 1..Len(AddedBy(c)) :
                        AddedBy(c)[i].metadata.filename = c.args.filename
            /\ (c.fail # "chunk_file" /\ StoredByUpload(c) = FALSE) =>
                  ~(answer.status_code = 200 /\ answer.status = "success")

(***************************************************************************)
(* QueryHandler.get_conversation_history                                   *)
(***************************************************************************)
\* the user ids of the callers: names, the empty string, and None
HistoryOfUsers == {"bob", "amy", "", NoneVal}

\* `if user_id:` holds for a string that is not empty
Truthy(user_id) == user_id \notin {NoneVal, ""}

\* QueryHandler.get_conversation_history
GetConversationHistory(history, user_id) ==
    IF Truthy(user_id)
    THEN SelectSeq(history, LAMBDA entry : entry.user_id = user_id)
    ELSE history

\* get_conversation_history is called; probe keeps the argument, the list
\* returned and the history it was taken from
CallGetConversationHistory(user_id) ==
    /\ probe' = [fn |-> "history_of", user_id |-> user_id,
                 result |-> GetConversationHistory(conversation_history, user_id),
                 history |-> conversation_history]
    /\ UNCHANGED <<conversation_history, openai_client, active_connections, conn, log,
                   broken, clock, batch, budget, appended, ghost>>

\* QueryHandler.clear_history
ClearHistory(history, user_id) ==
    IF Truthy(user_id)
    THEN SelectSeq(history, LAMBDA entry : entry.user_id # user_id)
    ELSE <<>>

\* clear_history is called; probe keeps the argument and the history before
\* and after
CallClearHistory(user_id) ==
    /\ conversation_history' = ClearHistory(conversation_history, user_id)
    /\ probe' = [fn |-> "clear_history", user_id |-> user_id,
                 before |-> conversation_history,
                 after |-> ClearHistory(conversation_history, user_id)]
    /\ UNCHANGED <<openai_client, active_connections, conn, log, broken, clock, batch,
                   budget, appended, ghost>>

InitHistoryOf ==
    /\ InitCommon
    /\ openai_client = "none"
    /\ probe = NoProbe
    /\ budget = [msgs |-> 0, pfails |-> 0, tfails |-> 0, batch |-> MaxHistoryOfBatch]

NextHistoryOf ==
    \/ \E q \in BatchQueries, u \in HistoryOfUsers : BatchStart(q, u)
    \/ \E r \in SearchResults : BatchRetrieve(r)
    \/ BatchGenerate
    \/ BatchRecord
    \/ \E u \in HistoryOfUsers : CallGetConversationHistory(u)
    \/ \E u \in HistoryOfUsers : CallClearHistory(u)

SpecHistoryOf == InitHistoryOf /\ [][NextHistoryOf]_vars

\* C30: get_conversation_history(user_id) returns, for every user_id that is
\* given, whatever string it is, exactly the history entries whose user_id
\* equals it, oldest first; called without a user_id it returns all entries,
\* oldest first.
C30_HistoryOfUser ==
    probe.fn = "history_of" =>
        /\ probe.result =
              IF probe.user_id # NoneVal
              THEN SelectSeq(probe.history, LAMBDA entry : entry.user_id = probe.user_id)
              ELSE probe.history
        /\ \A i, k \in 1..Len(probe.result) :
              i < k => probe.result[i].timestamp < probe.result[k].timestamp

\* C31: clear_history(user_id) with a user_id given removes exactly the
\* entries of that user and leaves the entries of every other user, in their
\* order; clear_history() without a user_id empties the history.
C31_ClearRemovesOneUser ==
    probe.fn = "clear_history" =>
        probe.after =
            IF probe.user_id # NoneVal
            THEN SelectSeq(probe.before, LAMBDA entry : entry.user_id # probe.user_id)
            ELSE <<>>

(***************************************************************************)
(* The prompt for the generation provider                                  *)
(***************************************************************************)
NoContextText ==
    Lit(<<"No", "relevant", "context", "found", "in", "the", "uploaded", "documents.">>)

NoHistoryText == Lit(<<"No", "previous", "conversation.">>)

\* "sep".join(parts)
RECURSIVE Join(_, _)
Join(sep, parts) ==
    IF parts = <<>> THEN <<>>
    ELSE IF Len(parts) = 1 THEN parts[1]
    ELSE CatAll(<<parts[1], sep, Join(sep, Tail(parts))>>)

\* f"Context {i} (from {source}):\n{text}"
ContextPart(i, chunk) ==
    CatAll(<<Lit(<<"Context">>), <<" ">>, StrNat(i), <<" ">>, Lit(<<"(from">>), <<" ">>,
             <<PyGet(PyGet(chunk, "metadata", [none |-> TRUE]), "filename",
                     "Unknown source")>>,
             <<"):">>, <<"\n">>, PyGet(chunk, "text", <<>>)>>)

\* QueryHandler._build_context_text
BuildContextText(context_chunks) ==
    IF context_chunks = <<>> THEN NoContextText
    ELSE Join(<<"\n", "\n">>,
              [i \in 1..Len(context_chunks) |-> ContextPart(i, context_chunks[i])])

\* prompt_parts of PromptTemplates.create_tutor_prompt
PromptParts(query, context, history_text) ==
    (IF history_text # <<>> /\ history_text # NoHistoryText
     THEN <<CatAll(<<Lit(<<"Previous", "conversation:">>), <<"\n">>,
                     history_text, <<"\n">>>>)>>
     ELSE <<>>)
    \o (IF context # <<>> /\ context # NoContextText
        THEN <<CatAll(<<Lit(<<"Relevant", "course", "material:">>), <<"\n">>,
                        context, <<"\n">>>>)>>
        ELSE <<>>)
    \o <<CatAll(<<Lit(<<"Student's", "question:">>), <<" ">>, query.s>>)>>
    \o <<Cat(<<"\n">>, Lit(<<"Please", "provide", "a", "helpful,", "educational",
                              "response", "that", "addresses", "the", "student's",
                              "question.", "Use", "the", "provided", "context",
                              "when", "relevant,", "and", "explain", "concepts",
                              "clearly.">>))>>

\* PromptTemplates.create_tutor_prompt
CreateTutorPrompt(query, context, history_text) ==
    Join(<<"\n">>, PromptParts(query, context, history_text))

\* the chunks a prompt is built from: with and without a filename
PromptChunkA == [text |-> Lit(<<"Gradient", "descent.">>), metadata |-> [filename |-> "ml.txt"]]
PromptChunkB == [text |-> Lit(<<"Neural", "nets.">>), metadata |-> [source |-> "upload"]]

PromptContexts ==
    {<<>>} \cup {<<a>> : a \in {PromptChunkA, PromptChunkB}}
           \cup {<<a, b>> : a, b \in {PromptChunkA, PromptChunkB}}
           \cup {<<a, b, c>> : a, b, c \in {PromptChunkA, PromptChunkB}}

\* history_text: "" on the streaming path, the text of _build_conversation_history
\* on the batch path
PromptHistories == {<<>>, NoHistoryText, Lit(<<"User:", "Hi">>)}

InitPrompt ==
    /\ InitCommon
    /\ openai_client = "client"
    /\ probe \in {[fn |-> "prompt", query |-> q, ctx |-> x, history_text |-> h,
                    done |-> FALSE, context_text |-> <<>>, prompt |-> <<>>] :
                     q \in MockQueries, x \in PromptContexts, h \in PromptHistories}
    /\ budget = [msgs |-> 0, pfails |-> 0, tfails |-> 0, batch |-> 0]

\* context_text = self._build_context_text(context_chunks);
\* prompt = self.prompt_templates.create_tutor_prompt(...)
BuildPrompt ==
    /\ probe.fn = "prompt"
    /\ ~probe.done
    /\ probe' = [probe EXCEPT
           !.done = TRUE,
           !.context_text = BuildContextText(probe.ctx),
           !.prompt = CreateTutorPrompt(probe.query, BuildContextText(probe.ctx),
                                        probe.history_text)]
    /\ UNCHANGED <<conversation_history, openai_client, active_connections, conn, log,
                   broken, clock, batch, budget, appended, ghost>>

NextPrompt == BuildPrompt

SpecPrompt == InitPrompt /\ [][NextPrompt]_vars

\* the string sub occurs in the string s from its token at
OccursAt(sub, s, at) ==
    /\ at + Len(sub) - 1 <= Len(s)
    /\ SubSeq(s, at, at + Len(sub) - 1) = sub

Occurs(sub, s) == \E at \in 1..Len(s) : OccursAt(sub, s, at)

\* C32: when the filtered context of a query is empty, the prompt built for
\* the provider contains the sentence that no relevant context was found, in
\* place of the context block; when it is not empty the prompt contains the
\* chunks numbered 1..n in retrieved order.
C32_PromptShowsContextOrMarker ==
    (probe.fn = "prompt" /\ probe.done) =>
        IF probe.ctx = <<>>
        THEN Occurs(NoContextText, probe.prompt)
        ELSE /\ \A i \in 1..Len(probe.ctx) :
                    Occurs(ContextPart(i, probe.ctx[i]), probe.prompt)
             /\ \A i, k \in 1..Len(probe.ctx) :
                    i < k => \E a, b \in 1..Len(probe.prompt) :
                        /\ a < b
                        /\ OccursAt(ContextPart(i, probe.ctx[i]), probe.prompt, a)
                        /\ OccursAt(ContextPart(k, probe.ctx[k]), probe.prompt, b)

(***************************************************************************)
(* Two connections served at once                                          *)
(***************************************************************************)
ConcSearch == [kind |-> "ok", chunks |-> <<Chunk(20), Chunk(81)>>]

InitConc ==
    /\ InitCommon
    /\ openai_client \in {"none", "client"}
    /\ probe = NoProbe
    /\ budget = [msgs |-> MaxConcMsgs, pfails |-> 0, tfails |-> MaxTransientFail,
                 batch |-> 0]

NextConc ==
    \E c \in AllConns :
        \/ Connect(c)
        \/ \E m \in Messages : Receive(c, m)
        \/ ClientDisconnect(c)
        \/ SendProcessing(c)
        \/ SendContext(c, ConcSearch)
        \/ SendContextFound(c)
        \/ GsrSendGenerating(c)
        \/ GsrCreate(c)
        \/ GsrNext(c)
        \/ GsrSendChunk(c)
        \/ GsrSendComplete(c)
        \/ MockSendGenerating(c)
        \/ MockSendChunk(c)
        \/ MockSendComplete(c)
        \/ MockSendError(c)
        \/ PqsSendError(c)
        \/ SendRaisesOnce(c)

SpecConc == InitConc /\ [][NextConc]_vars

\* the entry of appended recorded at the time t
EntryAt(t) == {i \in 1..Len(appended) : appended[i].timestamp = t}

\* C36: under any interleaving of the queries of several connections no
\* append to the history is lost, and for every query whose assistant entry
\* is recorded the user entry of that query was appended before it; entries
\* of other queries may lie between the two.
C36_AppendsKeptAndOrdered ==
    /\ conversation_history = LastN(appended, HistoryCap)
    /\ \A c \in AllConns :
          ghost[c].recorded =>
              \E i, k \in 1..Len(appended) :
                  /\ i < k
                  /\ EntryAt(ghost[c].uentry) = {i}
                  /\ EntryAt(ghost[c].aentry) = {k}
                  /\ appended[i].role = "user"
                  /\ appended[i].message = ghost[c].query
                  /\ appended[k].role = "assistant"
                  /\ appended[k].message = PyStr(ghost[c].answer)

\* the queries of the two connections ran interleaved: the user entry of one
\* was appended between the user entry and the assistant entry of the other,
\* and both answers are recorded
C36_Witness ==
    /\ \A c \in AllConns : ghost[c].recorded
    /\ \E c, d \in AllConns :
          /\ ghost[c].uentry < ghost[d].uentry
          /\ ghost[d].uentry < ghost[c].aentry
          /\ ghost[c].aentry < ghost[d].aentry
    /\ Len(conversation_history) = 4

====
